---- MODULE Spec2Model ----
(***************************************************************************)
(* Model of semantic-branch-for-release: the semantic version class, the   *)
(* commit classifier, the git queries and mutations, and the two actions   *)
(* of run() (release-cut and release) over a small git store.              *)
(*                                                                         *)
(* A string is a sequence of tokens.  A token is one character of          *)
(* punctuation ("-", ".", "+", "\n"), one decimal digit, or one word of    *)
(* letters; a placeholder of the branch template is one token too.         *)
(***************************************************************************)
EXTENDS Integers, Sequences, FiniteSets, TLC

\* ------------------------------------------------------------------ bounds
MaxCommits == 2
MaxManualTags == 1
MaxManualBranches == 1

MaxDeepCommits == 3

MaxMessages == 2

MaxNumber == 2

MaxQueryCommits == 3
MaxQueryTags == 2

MaxSeriesCommits == 3
MaxSeriesTags == 1
MaxSeriesBranches == 1

MaxEngineCommits == 4

\* ----------------------------------------------------------------- strings
Digits == <<"0", "1", "2", "3", "4", "5", "6", "7", "8", "9">>

IsDigit(t) == \E i \in 1..Len(Digits) : Digits[i] = t

DigitVal(t) == (CHOOSE i \in 1..Len(Digits) : Digits[i] = t) - 1

\* The tokens in ASCII order of their first character (words alphabetically).
TokenOrder ==
  <<"\n", "${major}", "${minor}", "${patch}", "${prerelease}", "+", "-", ".",
    "0", "1", "2", "3", "4", "5", "6", "7", "8", "9",
    "a", "alpha", "bar", "beta", "build", "develop", "feature", "foo", "main", "rc",
    "release", "some", "tag", "v", "version", "x", "zeta">>

Rank(t) == CHOOSE i \in 1..Len(TokenOrder) : TokenOrder[i] = t

IsWord(t) == Rank(t) > Rank("9")

NaN == -1000

RECURSIVE DigitRunLen(_)
DigitRunLen(s) ==
  IF s = <<>> \/ ~IsDigit(Head(s)) THEN 0 ELSE 1 + DigitRunLen(Tail(s))

RECURSIVE DigitsValue(_)
DigitsValue(s) ==
  IF s = <<>> THEN 0 ELSE DigitsValue(SubSeq(s, 1, Len(s) - 1)) * 10 + DigitVal(s[Len(s)])

\* JavaScript parseInt: an optional sign, then the leading run of digits.
parseInt(s) ==
  LET value(neg, body, n) ==
        IF n = 0 THEN NaN
        ELSE IF neg THEN 0 - DigitsValue(SubSeq(body, 1, n))
        ELSE DigitsValue(SubSeq(body, 1, n))
      body == IF s # <<>> /\ Head(s) \in {"-", "+"} THEN Tail(s) ELSE s
  IN  value(s # <<>> /\ Head(s) = "-", body, DigitRunLen(body))

RECURSIVE NatToString(_)
NatToString(n) ==
  IF n < 10 THEN <<Digits[n + 1]>>
  ELSE NatToString(n \div 10) \o <<Digits[(n % 10) + 1]>>

\* Number.prototype.toString
NumToString(n) == IF n < 0 THEN <<"-">> \o NatToString(0 - n) ELSE NatToString(n)

\* String.prototype.split(sep): the pieces between the separators.
RECURSIVE Split(_, _)
Split(s, sep) ==
  IF \A i \in 1..Len(s) : s[i] # sep THEN <<s>>
  ELSE LET i == CHOOSE k \in 1..Len(s) : s[k] = sep /\ \A j \in 1..(k - 1) : s[j] # sep
       IN  <<SubSeq(s, 1, i - 1)>> \o Split(SubSeq(s, i + 1, Len(s)), sep)

\* Array.prototype.join(sep)
RECURSIVE Join(_, _)
Join(parts, sep) ==
  IF parts = <<>> THEN <<>>
  ELSE IF Len(parts) = 1 THEN parts[1]
  ELSE parts[1] \o sep \o Join(Tail(parts), sep)

\* String.prototype.replace(pattern, by) with a string pattern of one token:
\* only the first occurrence is replaced.
ReplaceFirst(s, tok, by) ==
  IF \A i \in 1..Len(s) : s[i] # tok THEN s
  ELSE LET i == CHOOSE k \in 1..Len(s) : s[k] = tok /\ \A j \in 1..(k - 1) : s[j] # tok
       IN  SubSeq(s, 1, i - 1) \o by \o SubSeq(s, i + 1, Len(s))

\* whether the token occurs in s, and the parts of s before and after its
\* first occurrence
Has(s, tok) == \E i \in 1..Len(s) : s[i] = tok

Before(s, tok) == IF Has(s, tok) THEN Split(s, tok)[1] ELSE s

After(s, tok) ==
  IF Has(s, tok) THEN SubSeq(s, Len(Split(s, tok)[1]) + 2, Len(s)) ELSE <<>>

\* -------------------------------------------------------- semantic version
\* (0|[1-9]\d*)
IsNumeric(p) ==
  /\ p # <<>>
  /\ \A i \in 1..Len(p) : IsDigit(p[i])
  /\ (Len(p) = 1 \/ p[1] # "0")

\* (?:0|[1-9]\d*|\d*[a-zA-Z-][0-9a-zA-Z-]*)
IsPrereleaseIdent(p) ==
  /\ p # <<>>
  /\ \A i \in 1..Len(p) : IsDigit(p[i]) \/ IsWord(p[i]) \/ p[i] = "-"
  /\ (IsNumeric(p) \/ \E i \in 1..Len(p) : ~IsDigit(p[i]))

\* [0-9a-zA-Z-]+
IsBuildIdent(p) ==
  /\ p # <<>>
  /\ \A i \in 1..Len(p) : IsDigit(p[i]) \/ IsWord(p[i]) \/ p[i] = "-"

\* The match of SEMANTIC_VERSION_REGEX: [ok, major, minor, patch, prerelease],
\* the last four being the capture groups 1 to 4 (<<>> for an unset group).
NoMatch == [ok |-> FALSE, major |-> <<>>, minor |-> <<>>, patch |-> <<>>, prerelease |-> <<>>]

SemVerMatch(version) ==
  LET groups(core, hasPre, pre, hasBuild, build) ==
        IF /\ Len(core) = 3
           /\ \A i \in 1..3 : IsNumeric(core[i])
           /\ hasPre => \A i \in 1..Len(Split(pre, ".")) : IsPrereleaseIdent(Split(pre, ".")[i])
           /\ hasBuild => \A i \in 1..Len(Split(build, ".")) : IsBuildIdent(Split(build, ".")[i])
        THEN [ok |-> TRUE, major |-> core[1], minor |-> core[2], patch |-> core[3],
              prerelease |-> IF hasPre THEN pre ELSE <<>>]
        ELSE NoMatch
      s    == IF version # <<>> /\ Head(version) = "v" THEN Tail(version) ELSE version
      main == Before(s, "+")
  IN  groups(Split(Before(main, "-"), "."), Has(main, "-"), After(main, "-"),
             Has(s, "+"), After(s, "+"))

\* new SemanticVersion(version) does not throw
IsSemVer(version) == SemVerMatch(version).ok

\* new SemanticVersion(version): the object's fields; prerelease <<>> is undefined.
SemanticVersion(version) ==
  LET fields(m) == [major |-> parseInt(m.major), minor |-> parseInt(m.minor),
                    patch |-> parseInt(m.patch), prerelease |-> m.prerelease]
  IN  fields(SemVerMatch(version))

\* bumpMajor that leaves minor and patch as they were
bumpMajorKeepsMinor(v) == [v EXCEPT !.major = v.major + 1, !.prerelease = <<"rc", ".", "1">>]

bumpMajor(v) == [major |-> v.major + 1, minor |-> 0, patch |-> 0, prerelease |-> <<"rc", ".", "1">>]

\* bumpMinor that leaves the prerelease as it was
bumpMinorKeepsPrerelease(v) == [v EXCEPT !.minor = v.minor + 1, !.patch = 0]

bumpMinor(v) == [v EXCEPT !.minor = v.minor + 1, !.patch = 0, !.prerelease = <<"rc", ".", "1">>]

bumpPatch(v) ==
  IF v.prerelease = <<>>
  THEN [v EXCEPT !.patch = v.patch + 1, !.prerelease = <<"rc", ".", "1">>]
  ELSE LET next(parts, rcNumber) ==
             IF rcNumber # NaN
             THEN [v EXCEPT !.prerelease =
                     Join([parts EXCEPT ![Len(parts)] = NumToString(rcNumber + 1)], <<".">>)]
             ELSE [v EXCEPT !.prerelease = v.prerelease \o <<".", "1">>]
           lastOf(parts) == parts[Len(parts)]
       IN  next(Split(v.prerelease, "."), parseInt(lastOf(Split(v.prerelease, "."))))

\* makeRelease that also moves to the next patch
versionMakeReleaseNextPatch(v) == [v EXCEPT !.patch = v.patch + 1, !.prerelease = <<>>]

versionMakeRelease(v) == [v EXCEPT !.prerelease = <<>>]

isPrerelease(v) == v.prerelease # <<>>

\* toString without the leading v
toStringNoPrefix(v) ==
  NumToString(v.major) \o <<".">> \o NumToString(v.minor) \o <<".">>
    \o NumToString(v.patch)
    \o (IF v.prerelease # <<>> THEN <<"-">> \o v.prerelease ELSE <<>>)

toString(v) ==
  <<"v">> \o NumToString(v.major) \o <<".">> \o NumToString(v.minor) \o <<".">>
    \o NumToString(v.patch)
    \o (IF v.prerelease # <<>> THEN <<"-">> \o v.prerelease ELSE <<>>)

\* the try/catch filters of run(): a tag that parses and is (not) a prerelease
IsCandidateTag(tag) == IsSemVer(tag) /\ isPrerelease(SemanticVersion(tag))

IsStableTag(tag) == IsSemVer(tag) /\ ~isPrerelease(SemanticVersion(tag))

\* ------------------------------------------------------- commit classifier
\* A commit message is a sequence of the tokens: a type word, "(scope)", "!",
\* ": ", "text" (a run of characters other than a line break), "\n" and the
\* literal "BREAKING CHANGE: ".
CommitTypes ==
  {"build", "chore", "ci", "docs", "feat", "fix", "perf", "refactor", "revert", "style", "test"}

MAJOR == "major"
MINOR == "minor"
PATCH == "patch"
NONE == "none"

\* The match of CONVENTIONAL_COMMIT_REGEX: [ok, type, bang, footer], footer
\* being capture group 4, the lines of the last repetition of the paragraph
\* group (<<>> when the group did not take part in the match).
ConventionalCommitMatch(message) ==
  LET groups(hasBang, headOk, lines, n, starts, last) ==
        IF /\ headOk
           /\ lines[1] # <<>>
           /\ n >= 2 => lines[2] = <<>>
           /\ \A i \in 2..n : lines[i] = <<>> => (i = n \/ lines[i + 1] # <<>>)
        THEN [ok |-> TRUE, type |-> message[1], bang |-> hasBang,
              footer |-> IF starts = {} THEN <<>>
                         ELSE [k \in 1..(n - last - (IF lines[n] = <<>> THEN 1 ELSE 0)) |-> lines[last + k]]]
        ELSE [ok |-> FALSE, type |-> "", bang |-> FALSE, footer |-> <<>>]
      paragraphs(hasBang, headOk, lines, starts) ==
        groups(hasBang, headOk, lines, Len(lines), starts,
               CHOOSE i \in starts : \A j \in starts : j <= i)
      body(hasBang, headOk, lines) ==
        paragraphs(hasBang, headOk, lines, {i \in 2..(Len(lines) - 1) : lines[i] = <<>>})
      header(hasBang, colonAt) ==
        body(hasBang,
             Len(message) > colonAt /\ message[1] \in CommitTypes /\ message[colonAt] = ": ",
             Split(SubSeq(message, colonAt + 1, Len(message)), "\n"))
      bang(bangAt, hasBang) == header(hasBang, IF hasBang THEN bangAt + 1 ELSE bangAt)
      scope(bangAt) == bang(bangAt, Len(message) >= bangAt /\ message[bangAt] = "!")
  IN  scope(IF Len(message) >= 2 /\ message[2] = "(scope)" THEN 3 ELSE 2)

\* footer.includes('\nBREAKING CHANGE: '): a line of the group starts with the marker
FooterHasBreakingChange(footer) ==
  \E i \in 1..Len(footer) : footer[i] # <<>> /\ footer[i][1] = "BREAKING CHANGE: "

\* the classification with "!" looked at for the types feat and fix only
parseReleaseTypeBangOnBumpingTypes(message) ==
  LET typeOf(m) ==
        IF ~m.ok THEN NONE
        ELSE IF m.footer # <<>> /\ FooterHasBreakingChange(m.footer) THEN MAJOR
        ELSE IF m.bang /\ m.type \in {"feat", "fix"} THEN MAJOR
        ELSE IF m.type = "feat" THEN MINOR
        ELSE IF m.type = "fix" THEN PATCH
        ELSE NONE
  IN  typeOf(ConventionalCommitMatch(message))

\* the classification with a message that is no conventional commit taken as a fix
parseReleaseTypeNoMatchIsPatch(message) ==
  LET typeOf(m) ==
        IF ~m.ok THEN PATCH
        ELSE IF m.footer # <<>> /\ FooterHasBreakingChange(m.footer) THEN MAJOR
        ELSE IF m.bang THEN MAJOR
        ELSE IF m.type = "feat" THEN MINOR
        ELSE IF m.type = "fix" THEN PATCH
        ELSE NONE
  IN  typeOf(ConventionalCommitMatch(message))

parseReleaseTypeFromCommitMessage(message) ==
  LET typeOf(m) ==
        IF ~m.ok THEN NONE
        ELSE IF m.footer # <<>> /\ FooterHasBreakingChange(m.footer) THEN MAJOR
        ELSE IF m.bang THEN MAJOR
        ELSE IF m.type = "feat" THEN MINOR
        ELSE IF m.type = "fix" THEN PATCH
        ELSE NONE
  IN  typeOf(ConventionalCommitMatch(message))

\* the loop with a later message overriding whatever was found before it
RECURSIVE releaseTypeLoopLastWins(_, _)
releaseTypeLoopLastWins(commitMessages, bumpType) ==
  IF commitMessages = <<>> THEN bumpType
  ELSE LET step(releaseType) ==
             IF releaseType = MAJOR THEN MAJOR
             ELSE IF releaseType = NONE
               THEN releaseTypeLoopLastWins(Tail(commitMessages), bumpType)
             ELSE releaseTypeLoopLastWins(Tail(commitMessages), releaseType)
       IN  step(parseReleaseTypeFromCommitMessage(Head(commitMessages)))

\* the loop of releaseTypeFromCommitMessages, bumpType being its accumulator
RECURSIVE releaseTypeLoop(_, _)
releaseTypeLoop(commitMessages, bumpType) ==
  IF commitMessages = <<>> THEN bumpType
  ELSE LET step(releaseType) ==
             IF releaseType = MAJOR THEN MAJOR
             ELSE IF releaseType = MINOR /\ bumpType # MAJOR
               THEN releaseTypeLoop(Tail(commitMessages), MINOR)
             ELSE IF releaseType = PATCH /\ bumpType # MAJOR /\ bumpType # MINOR
               THEN releaseTypeLoop(Tail(commitMessages), PATCH)
             ELSE releaseTypeLoop(Tail(commitMessages), bumpType)
       IN  step(parseReleaseTypeFromCommitMessage(Head(commitMessages)))

\* the release type of the newest commit alone
releaseTypeFromNewestOnly(commitMessages) ==
  IF commitMessages = <<>> THEN NONE
  ELSE parseReleaseTypeFromCommitMessage(Head(commitMessages))

releaseTypeFromCommitMessages(commitMessages) == releaseTypeLoop(commitMessages, NONE)

\* ---------------------------------------------------- branch classification
\* release-branch-pattern ^release-(0|[1-9]\d*)\.(0|[1-9]\d*)\.x$
MatchesReleasePattern(name) ==
  LET matches(dots) ==
        /\ Len(name) >= 2 /\ name[1] = "release" /\ name[2] = "-"
        /\ Len(dots) = 3
        /\ IsNumeric(SubSeq(dots[1], 3, Len(dots[1])))
        /\ IsNumeric(dots[2])
        /\ dots[3] = <<"x">>
  IN  matches(Split(name, "."))

isReleaseBranch(branchName, releaseBranchRegex) ==
  IF releaseBranchRegex = "release-N.N.x" THEN MatchesReleasePattern(branchName) ELSE FALSE

generateReleaseBranchName(template, version) ==
  ReplaceFirst(
    ReplaceFirst(
      ReplaceFirst(
        ReplaceFirst(template, "${major}", NumToString(version.major)),
        "${minor}", NumToString(version.minor)),
      "${patch}", NumToString(version.patch)),
    "${prerelease}", version.prerelease)

\* ------------------------------------------------------------ the git store
VARIABLES
  commits,   \* sequence of [parent, message]; a commit is its index, parent 0 for the root
  tags,      \* tag name -> commit
  branches,  \* branch name -> commit
  HEAD,      \* [ref, detached, commit]: what `git branch` reports as current, and the commit
  run,       \* the record of the last run() since the store was last touched by hand
  call       \* [fn, arg, result]: the last direct call of a function or query

vars == <<commits, tags, branches, HEAD, run, call>>

\* no direct call made
NoCall == [fn |-> "", arg |-> <<>>, result |-> <<>>]

\* The inputs of the action that do not change between runs.
trunkBranchName == <<"main">>

releaseBranchRegex == "release-N.N.x"

releaseBranchStringTemplate == <<"release", "-", "${major}", ".", "${minor}", ".", "x">>

RECURSIVE Ancestors(_)
Ancestors(c) == IF c = 0 THEN {} ELSE {c} \cup Ancestors(commits[c].parent)

TokAt(s, i) == IF i <= Len(s) THEN s[i] ELSE ""

FirstDiff(a, b) ==
  CHOOSE i \in 1..(Len(a) + 1) : TokAt(a, i) # TokAt(b, i) /\ \A j \in 1..(i - 1) : TokAt(a, j) = TokAt(b, j)

\* strcmp order on the characters; the end of the string is the least.
CharLess(ca, cb) == ca # cb /\ (ca = "" \/ (cb # "" /\ Rank(ca) < Rank(cb)))

\* The default order of `git tag`: refname, byte by byte.
RefnameLess(a, b) ==
  LET at(i) == CharLess(TokAt(a, i), TokAt(b, i))
  IN  a # b /\ at(FirstDiff(a, b))

\* --sort=v:refname under versionsort.suffix=- : runs of digits compare as
\* numbers, and a name that has the suffix "-" where the two names first
\* differ sorts before the one that has not.
VersionLess(a, b) ==
  /\ a # b
  /\ LET less(i, ca, cb, la, lb) ==
           IF (i = 1 \/ a[i - 1] # "-") /\ ca = "-" /\ cb # "-" THEN TRUE
           ELSE IF (i = 1 \/ a[i - 1] # "-") /\ cb = "-" /\ ca # "-" THEN FALSE
           ELSE IF la > 0 /\ lb > 0 THEN (la < lb \/ (la = lb /\ DigitVal(ca) < DigitVal(cb)))
           ELSE IF i > 1 /\ IsDigit(a[i - 1]) /\ (la > 0 \/ lb > 0) THEN lb > 0
           ELSE CharLess(ca, cb)
         at(i) == less(i, TokAt(a, i), TokAt(b, i),
                       DigitRunLen(SubSeq(a, i, Len(a))), DigitRunLen(SubSeq(b, i, Len(b))))
     IN  at(FirstDiff(a, b))

\* The names of S as git lists them: in refname order, and under
\* --sort=v:refname in version order.
SortedByRefname(S) ==
  [i \in 1..Cardinality(S) |->
     CHOOSE t \in S : Cardinality({u \in S : RefnameLess(u, t)}) = i - 1]

SortedByVersion(S) ==
  [i \in 1..Cardinality(S) |->
     CHOOSE t \in S : Cardinality({u \in S : VersionLess(u, t)}) = i - 1]

\* git tag --merged <commit>: the names of the tags on the commit or an ancestor
TagsMerged(st, c) == {t \in DOMAIN st.tags : st.tags[t] \in Ancestors(c)}

\* git.tags({'--merged': ref, '--sort': 'v:refname'}).all, ref resolved to commit c
getTags(st, c) == SortedByVersion(TagsMerged(st, c))

\* the latest tag of the whole repository, whatever the ref
getLatestTagWholeRepo(st, c) ==
  LET latest(tagList) == IF Len(tagList) > 0 THEN tagList[Len(tagList)] ELSE <<>>
  IN  latest(SortedByVersion(DOMAIN st.tags))

\* the first tag of the list in place of the last
getLatestTagOldest(st, c) ==
  LET oldest(tagList) == IF Len(tagList) > 0 THEN tagList[1] ELSE <<>>
  IN  oldest(getTags(st, c))

getLatestTag(st, c) ==
  LET latest(tagList) == IF Len(tagList) > 0 THEN tagList[Len(tagList)] ELSE <<>>
  IN  latest(getTags(st, c))

\* git.tags({'--sort': 'v:refname'}): no --merged, every tag of the repository
getLatestStableTag(st) ==
  LET latest(tagList) == IF Len(tagList) > 0 THEN tagList[Len(tagList)] ELSE <<>>
  IN  latest(SortedByVersion({t \in DOMAIN st.tags : IsStableTag(t)}))

\* git.tags({'--points-at': 'HEAD'}).all
getTagsAtHEAD(st) ==
  SortedByRefname({t \in DOMAIN st.tags : st.tags[t] = st.HEAD.commit})

\* git.branch().current
getCurrentBranch(st) == st.HEAD.ref

\* git.firstCommit(): the root of HEAD's history
firstCommit(st) == CHOOSE c \in Ancestors(st.HEAD.commit) : commits[c].parent = 0

\* git log lists the newest commit first
RECURSIVE NewestFirst(_)
NewestFirst(S) ==
  IF S = {} THEN <<>>
  ELSE LET rest(newest) == <<newest>> \o NewestFirst(S \ {newest})
       IN  rest(CHOOSE c \in S : \A d \in S : d <= c)

\* git.log({from, to}): no option symmetric is given, so the range is the
\* library's default from...to, the commits reachable from one of the two
\* and not from the other; from..to where from is an ancestor of to
LogRange(from, to) ==
  NewestFirst((Ancestors(to) \ Ancestors(from)) \cup (Ancestors(from) \ Ancestors(to)))

\* the log of to alone, from not looked at
getCommitMessagesWholeHistory(from, to) ==
  LET messages(log) == [i \in 1..Len(log) |-> commits[log[i]].message]
  IN  messages(NewestFirst(Ancestors(to)))

\* the log with the commit of from at its end
getCommitMessagesFromIncluded(from, to) ==
  LET messages(log) == [i \in 1..Len(log) |-> commits[log[i]].message]
  IN  messages(LogRange(from, to) \o <<from>>)

getCommitMessages(from, to) ==
  LET messages(log) == [i \in 1..Len(log) |-> commits[log[i]].message]
  IN  messages(LogRange(from, to))

\* ------------------------------------------------------------ git mutations
\* A store is [tags, branches, HEAD]; a mutation gives [error, st, ops], ops
\* being the mutations that took effect, in order.
EmptyMap == [x \in {} |-> 0]

\* git.tag([tag]): a lightweight tag on HEAD; git refuses an existing name
gitTag(st, tag) == [st EXCEPT !.tags = (tag :> st.HEAD.commit) @@ st.tags]

\* git.branch in place of git.checkoutBranch: the branch is created, HEAD stays
gitCheckoutBranchNoSwitch(st, name, ref) ==
  [st EXCEPT !.branches = (name :> st.branches[ref]) @@ st.branches]

\* git.checkoutBranch(name, ref): create the branch on ref's commit and switch to it
gitCheckoutBranch(st, name, ref) ==
  [st EXCEPT !.branches = (name :> st.branches[ref]) @@ st.branches,
             !.HEAD = [ref |-> name, detached |-> FALSE, commit |-> st.branches[ref]]]

\* git.checkout(tag): HEAD detached at the tag's commit; `git branch` then
\* reports the tag name as the current entry
gitCheckoutTag(st, tag) ==
  [st EXCEPT !.HEAD = [ref |-> tag, detached |-> TRUE, commit |-> st.tags[tag]]]

\* cutReleaseBranch without the test for an existing branch (git checkout -B)
cutReleaseBranchNoExistsCheck(st, ref, releaseBranchName, tag) ==
  IF tag \in DOMAIN st.tags
  THEN [error |-> "TagExists", st |-> gitCheckoutBranch(st, releaseBranchName, ref),
        ops |-> <<"branch">>]
  ELSE [error |-> "", st |-> gitTag(gitCheckoutBranch(st, releaseBranchName, ref), tag),
        ops |-> <<"branch", "tag">>]

\* cutReleaseBranch that switches to the branch before it tests for it
cutReleaseBranchSwitchesFirst(st, ref, releaseBranchName, tag) ==
  IF releaseBranchName \in DOMAIN st.branches
  THEN [error |-> "BranchExists",
        st |-> [st EXCEPT !.HEAD = [ref |-> releaseBranchName, detached |-> FALSE,
                                    commit |-> st.branches[releaseBranchName]]],
        ops |-> <<>>]
  ELSE IF tag \in DOMAIN st.tags
  THEN [error |-> "TagExists", st |-> gitCheckoutBranch(st, releaseBranchName, ref),
        ops |-> <<"branch">>]
  ELSE [error |-> "", st |-> gitTag(gitCheckoutBranch(st, releaseBranchName, ref), tag),
        ops |-> <<"branch", "tag">>]

\* cutReleaseBranch that undoes the branch when the tag cannot be made
cutReleaseBranchRollsBack(st, ref, releaseBranchName, tag) ==
  IF releaseBranchName \in DOMAIN st.branches
  THEN [error |-> "BranchExists", st |-> st, ops |-> <<>>]
  ELSE IF tag \in DOMAIN st.tags
  THEN [error |-> "TagExists", st |-> st, ops |-> <<>>]
  ELSE [error |-> "", st |-> gitTag(gitCheckoutBranch(st, releaseBranchName, ref), tag),
        ops |-> <<"branch", "tag">>]

cutReleaseBranch(st, ref, releaseBranchName, tag) ==
  IF releaseBranchName \in DOMAIN st.branches
  THEN [error |-> "BranchExists", st |-> st, ops |-> <<>>]
  ELSE LET onBranch == gitCheckoutBranch(st, releaseBranchName, ref)
       IN  IF tag \in DOMAIN st.tags
           THEN [error |-> "TagExists", st |-> onBranch, ops |-> <<"branch">>]
           ELSE [error |-> "", st |-> gitTag(onBranch, tag), ops |-> <<"branch", "tag">>]

cutReleaseFromTrunk(st, currentBranch, branchCutName, tag) ==
  cutReleaseBranch(st, currentBranch, branchCutName, tag)

cutReleaseFromReleaseBranch(st, currentBranch, tag) ==
  IF tag \in DOMAIN st.tags
  THEN [error |-> "TagExists", st |-> st, ops |-> <<>>]
  ELSE [error |-> "", st |-> gitTag(st, tag), ops |-> <<"tag">>]

\* makeRelease that tags with the name of the tag it checked out
makeReleaseTagsTarget(st, targetTag, releaseTag) ==
  [error |-> "TagExists", st |-> gitCheckoutTag(st, targetTag), ops |-> <<"checkout">>]

makeRelease(st, targetTag, releaseTag) ==
  LET atTag == gitCheckoutTag(st, targetTag)
  IN  IF releaseTag \in DOMAIN st.tags
      THEN [error |-> "TagExists", st |-> atTag, ops |-> <<"checkout">>]
      ELSE [error |-> "", st |-> gitTag(atTag, releaseTag), ops |-> <<"checkout", "tag">>]

\* ------------------------------------------------------------------- run()
\* What one action computes before the publish step: the error thrown (""
\* for none), the store it leaves, the mutations done, the three outputs,
\* the tag names its error message lists, and the values it derived.
Blank(st) ==
  [error |-> "", st |-> st, ops |-> <<>>,
   nextVersion |-> <<>>, previousVersion |-> <<>>, previousStableVersion |-> <<>>,
   listed |-> <<>>, currentBranch |-> <<>>, branchType |-> "", latestTag |-> <<>>,
   releaseType |-> "", tagsAtHEAD |-> <<>>, branchCutName |-> <<>>]

\* the release-branch test of release letting the trunk through
ReleaseBranchErrorTrunkAllowed(currentBranch) ==
  IF currentBranch # trunkBranchName /\ ~isReleaseBranch(currentBranch, releaseBranchRegex)
  THEN "NotAReleaseBranch"
  ELSE ""

\* release: the current branch must be a release branch; the test under a
\* given release-branch-pattern, and under the one of the runs modelled
ReleaseBranchErrorFor(currentBranch, regex) ==
  IF ~isReleaseBranch(currentBranch, regex) THEN "NotAReleaseBranch" ELSE ""

ReleaseBranchError(currentBranch) == ReleaseBranchErrorFor(currentBranch, releaseBranchRegex)

\* the checks on the tags at HEAD without the test for several candidates
HeadStateErrorFirstCandidate(tagsAtHEAD) ==
  IF Len(tagsAtHEAD) = 0 THEN "NoTagsAtHEAD"
  ELSE IF Len(SelectSeq(tagsAtHEAD, IsCandidateTag)) = 0 THEN "NoCandidate"
  ELSE IF Len(SelectSeq(tagsAtHEAD, IsStableTag)) > 0 THEN "AlreadyReleased"
  ELSE ""

\* release: the checks on the tags at HEAD, in the order of the code
HeadStateError(tagsAtHEAD) ==
  LET check(numReleaseCandidatesAtHEAD, numReleasesAtHEAD) ==
        IF Len(tagsAtHEAD) = 0 THEN "NoTagsAtHEAD"
        ELSE IF numReleaseCandidatesAtHEAD = 0 THEN "NoCandidate"
        ELSE IF numReleaseCandidatesAtHEAD > 1 THEN "MultipleCandidates"
        ELSE IF numReleasesAtHEAD > 0 THEN "AlreadyReleased"
        ELSE ""
  IN  check(Len(SelectSeq(tagsAtHEAD, IsCandidateTag)), Len(SelectSeq(tagsAtHEAD, IsStableTag)))

\* messages that interpolate only the tags their check counted
ListedInMessageCountedOnly(error, tagsAtHEAD) ==
  IF error = "MultipleCandidates" THEN SelectSeq(tagsAtHEAD, IsCandidateTag)
  ELSE IF error = "AlreadyReleased" THEN SelectSeq(tagsAtHEAD, IsStableTag)
  ELSE <<>>

\* the tag names interpolated into the message of a HEAD-state error
ListedInMessage(error, tagsAtHEAD) ==
  IF error \in {"MultipleCandidates", "AlreadyReleased"} THEN tagsAtHEAD ELSE <<>>

ReleaseAction(st) ==
  LET made(base, version, result) ==
        [base EXCEPT !.error = result.error, !.st = result.st, !.ops = result.ops,
                     !.previousVersion = toString(version),
                     !.previousStableVersion = getLatestStableTag(st),
                     !.nextVersion = toString(versionMakeRelease(version))]
      target(base, targetTag, version) ==
        made(base, version, makeRelease(st, targetTag, toString(versionMakeRelease(version))))
      atHEAD(base, tagsAtHEAD, headError) ==
        IF headError # ""
        THEN [base EXCEPT !.error = headError, !.tagsAtHEAD = tagsAtHEAD,
                          !.listed = ListedInMessage(headError, tagsAtHEAD)]
        ELSE target([base EXCEPT !.tagsAtHEAD = tagsAtHEAD],
                    SelectSeq(tagsAtHEAD, IsCandidateTag)[1],
                    SemanticVersion(SelectSeq(tagsAtHEAD, IsCandidateTag)[1]))
      tagged(base, tagsAtHEAD) == atHEAD(base, tagsAtHEAD, HeadStateError(tagsAtHEAD))
      onBranch(base, branchError) ==
        IF branchError # "" THEN [base EXCEPT !.error = branchError]
        ELSE tagged(base, getTagsAtHEAD(st))
      current(currentBranch) ==
        onBranch([Blank(st) EXCEPT !.currentBranch = currentBranch],
                 ReleaseBranchError(currentBranch))
  IN  current(getCurrentBranch(st))

\* release-cut without the test of the current branch
CutBranchErrorNone(currentBranch) == ""

\* release-cut: the current branch must be the trunk or a release branch
CutBranchError(currentBranch) ==
  IF currentBranch # trunkBranchName /\ ~isReleaseBranch(currentBranch, releaseBranchRegex)
  THEN "NotTrunkOrRelease"
  ELSE ""

\* branchType taking a release branch for the trunk
BranchTypeOfReleaseAsTrunk(currentBranch) ==
  IF currentBranch = trunkBranchName \/ isReleaseBranch(currentBranch, releaseBranchRegex)
  THEN "trunk"
  ELSE ""

\* release-cut: branchType under a given trunk-branch-name and
\* release-branch-pattern, and under those of the runs modelled
BranchTypeFor(currentBranch, trunk, regex) ==
  IF currentBranch = trunk THEN "trunk"
  ELSE IF isReleaseBranch(currentBranch, regex) THEN "release"
  ELSE ""

BranchTypeOf(currentBranch) ==
  BranchTypeFor(currentBranch, trunkBranchName, releaseBranchRegex)

\* the placement checks without the trunk test of a minor release
PlacementErrorMinorAnywhere(releaseType, currentBranch) ==
  IF releaseType = NONE THEN "NoValidChanges"
  ELSE IF releaseType = PATCH
    THEN (IF currentBranch = trunkBranchName THEN "PatchOnTrunk" ELSE "")
  ELSE IF releaseType = MAJOR
    THEN (IF currentBranch # trunkBranchName THEN "MajorOffTrunk" ELSE "")
  ELSE ""

\* the placement checks without the trunk test of a patch release
PlacementErrorPatchAnywhere(releaseType, currentBranch) ==
  IF releaseType = NONE THEN "NoValidChanges"
  ELSE IF releaseType = MINOR
    THEN (IF currentBranch # trunkBranchName THEN "MinorOffTrunk" ELSE "")
  ELSE IF releaseType = MAJOR
    THEN (IF currentBranch # trunkBranchName THEN "MajorOffTrunk" ELSE "")
  ELSE ""

\* the placement checks letting a release type of none through
PlacementErrorNoneAllowed(releaseType, currentBranch) ==
  IF releaseType = PATCH
    THEN (IF currentBranch = trunkBranchName THEN "PatchOnTrunk" ELSE "")
  ELSE IF releaseType = MINOR
    THEN (IF currentBranch # trunkBranchName THEN "MinorOffTrunk" ELSE "")
  ELSE IF releaseType = MAJOR
    THEN (IF currentBranch # trunkBranchName THEN "MajorOffTrunk" ELSE "")
  ELSE ""

\* release-cut: the checks on the release type against the branch
PlacementError(releaseType, currentBranch) ==
  IF releaseType = NONE THEN "NoValidChanges"
  ELSE IF releaseType = PATCH
    THEN (IF currentBranch = trunkBranchName THEN "PatchOnTrunk" ELSE "")
  ELSE IF releaseType = MINOR
    THEN (IF currentBranch # trunkBranchName THEN "MinorOffTrunk" ELSE "")
  ELSE IF releaseType = MAJOR
    THEN (IF currentBranch # trunkBranchName THEN "MajorOffTrunk" ELSE "")
  ELSE ""

Bump(releaseType, version) ==
  IF releaseType = PATCH THEN bumpPatch(version)
  ELSE IF releaseType = MINOR THEN bumpMinor(version)
  ELSE IF releaseType = MAJOR THEN bumpMajor(version)
  ELSE version

ReleaseCutAction(st) ==
  LET done(typed, branchCutName, nextVersion, result) ==
        [typed EXCEPT !.error = result.error, !.st = result.st, !.ops = result.ops,
                      !.branchCutName = IF typed.branchType = "trunk" THEN branchCutName ELSE <<>>,
                      !.previousStableVersion = getLatestStableTag(st),
                      !.nextVersion = nextVersion]
      cut(typed, branchCutName, nextVersion) ==
        done(typed, branchCutName, nextVersion,
             IF typed.branchType = "trunk"
             THEN cutReleaseFromTrunk(st, typed.currentBranch, branchCutName, nextVersion)
             ELSE IF typed.branchType = "release"
             THEN cutReleaseFromReleaseBranch(st, typed.currentBranch, nextVersion)
             ELSE [error |-> "", st |-> st, ops |-> <<>>])
      bumped(typed, version) ==
        cut(typed, generateReleaseBranchName(releaseBranchStringTemplate, version),
            toString(version))
      placed(typed, version, placementError) ==
        IF placementError # "" THEN [typed EXCEPT !.error = placementError, !.previousVersion = <<>>]
        ELSE bumped(typed, Bump(typed.releaseType, version))
      typedAs(based, version, releaseType) ==
        placed([based EXCEPT !.releaseType = releaseType], version,
               PlacementError(releaseType, based.currentBranch))
      since(based, version, commitMessages) ==
        IF Len(commitMessages) = 0
        THEN [based EXCEPT !.error = IF based.latestTag # <<>> THEN "NoCommitsSinceTag"
                                     ELSE "NoCommitsInRepo",
                           !.previousVersion = <<>>]
        ELSE typedAs(based, version, releaseTypeFromCommitMessages(commitMessages))
      tagged(based, latestTag) ==
        IF latestTag # <<>>
        THEN IF ~IsSemVer(latestTag)
             THEN [based EXCEPT !.error = "InvalidVersion", !.latestTag = latestTag]
             ELSE since([based EXCEPT !.latestTag = latestTag,
                                      !.previousVersion = toString(SemanticVersion(latestTag))],
                        SemanticVersion(latestTag),
                        getCommitMessages(st.tags[latestTag], st.HEAD.commit))
        ELSE since(based, SemanticVersion(<<"0", ".", "0", ".", "0">>),
                   getCommitMessages(firstCommit(st), st.HEAD.commit))
      onBranch(base, branchError) ==
        IF branchError # "" THEN [base EXCEPT !.error = branchError]
        ELSE tagged([base EXCEPT !.branchType = BranchTypeOf(base.currentBranch)],
                    getLatestTag(st, st.branches[base.currentBranch]))
      current(currentBranch) ==
        onBranch([Blank(st) EXCEPT !.currentBranch = currentBranch],
                 CutBranchError(currentBranch))
  IN  current(getCurrentBranch(st))

SupportedActions == {"release", "release-cut"}

\* run() with the outputs set before the publish step
RunResultOutputsBeforePublish(st, action, dryRun, pushOk) ==
  LET unset == [set |-> FALSE, nextVersion |-> <<>>, previousVersion |-> <<>>,
                previousStableVersion |-> <<>>]
      common == [action |-> action, dryRun |-> dryRun, pre |-> st]
      outputsOf(r) == [set |-> TRUE, nextVersion |-> r.nextVersion,
                       previousVersion |-> r.previousVersion,
                       previousStableVersion |-> r.previousStableVersion]
      finish(r) ==
        IF r.error # ""
        THEN common @@ r @@ [status |-> "failed", published |-> 0, outputs |-> unset]
        ELSE IF ~dryRun /\ ~pushOk
        THEN common @@ [r EXCEPT !.error = "PushFailed", !.ops = Append(r.ops, "publish")]
               @@ [status |-> "failed", published |-> 1, outputs |-> outputsOf(r)]
        ELSE common
               @@ [r EXCEPT !.ops = IF dryRun THEN r.ops ELSE Append(r.ops, "publish")]
               @@ [status |-> "ok", published |-> IF dryRun THEN 0 ELSE 1,
                   outputs |-> outputsOf(r)]
  IN  IF action \notin SupportedActions
      THEN common @@ [Blank(st) EXCEPT !.error = "NotSupportedAction"]
             @@ [status |-> "failed", published |-> 0, outputs |-> unset]
      ELSE finish(IF action = "release" THEN ReleaseAction(st) ELSE ReleaseCutAction(st))

\* run() with a publish step that does not look at dry-run
RunResultPublishOnDryRun(st, action, dryRun, pushOk) ==
  LET unset == [set |-> FALSE, nextVersion |-> <<>>, previousVersion |-> <<>>,
                previousStableVersion |-> <<>>]
      common == [action |-> action, dryRun |-> dryRun, pre |-> st]
      finish(r) ==
        IF r.error # ""
        THEN common @@ r @@ [status |-> "failed", published |-> 0, outputs |-> unset]
        ELSE IF ~pushOk
        THEN common @@ [r EXCEPT !.error = "PushFailed", !.ops = Append(r.ops, "publish")]
               @@ [status |-> "failed", published |-> 1, outputs |-> unset]
        ELSE common
               @@ [r EXCEPT !.ops = Append(r.ops, "publish")]
               @@ [status |-> "ok", published |-> 1,
                   outputs |-> [set |-> TRUE, nextVersion |-> r.nextVersion,
                                previousVersion |-> r.previousVersion,
                                previousStableVersion |-> r.previousStableVersion]]
  IN  IF action \notin SupportedActions
      THEN common @@ [Blank(st) EXCEPT !.error = "NotSupportedAction"]
             @@ [status |-> "failed", published |-> 0, outputs |-> unset]
      ELSE finish(IF action = "release" THEN ReleaseAction(st) ELSE ReleaseCutAction(st))

\* run() as a whole: the action, then the publish step unless dry-run, then
\* the outputs.  pushOk is whether the remote accepts the push.
RunResult(st, action, dryRun, pushOk) ==
  LET unset == [set |-> FALSE, nextVersion |-> <<>>, previousVersion |-> <<>>,
                previousStableVersion |-> <<>>]
      common == [action |-> action, dryRun |-> dryRun, pre |-> st]
      finish(r) ==
        IF r.error # ""
        THEN common @@ r @@ [status |-> "failed", published |-> 0, outputs |-> unset]
        ELSE IF ~dryRun /\ ~pushOk
        THEN common @@ [r EXCEPT !.error = "PushFailed", !.ops = Append(r.ops, "publish")]
               @@ [status |-> "failed", published |-> 1, outputs |-> unset]
        ELSE common
               @@ [r EXCEPT !.ops = IF dryRun THEN r.ops ELSE Append(r.ops, "publish")]
               @@ [status |-> "ok", published |-> IF dryRun THEN 0 ELSE 1,
                   outputs |-> [set |-> TRUE, nextVersion |-> r.nextVersion,
                                previousVersion |-> r.previousVersion,
                                previousStableVersion |-> r.previousStableVersion]]
  IN  IF action \notin SupportedActions
      THEN common @@ [Blank(st) EXCEPT !.error = "NotSupportedAction"]
             @@ [status |-> "failed", published |-> 0, outputs |-> unset]
      ELSE finish(IF action = "release" THEN ReleaseAction(st) ELSE ReleaseCutAction(st))

Store == [tags |-> tags, branches |-> branches, HEAD |-> HEAD]

Idle ==
  [action |-> "", dryRun |-> FALSE, pre |-> [tags |-> EmptyMap, branches |-> EmptyMap,
                                            HEAD |-> [ref |-> <<>>, detached |-> FALSE, commit |-> 0]]]
    @@ Blank([tags |-> EmptyMap, branches |-> EmptyMap,
              HEAD |-> [ref |-> <<>>, detached |-> FALSE, commit |-> 0]])
    @@ [status |-> "idle", published |-> 0,
        outputs |-> [set |-> FALSE, nextVersion |-> <<>>, previousVersion |-> <<>>,
                     previousStableVersion |-> <<>>]]

\* ------------------------------------------------------------ the actions
\* The messages, tag names and branch names a user of the repository writes.
CommitMessagePool ==
  { <<"feat", ": ", "text">>,
    <<"fix", "(scope)", ": ", "text">>,
    <<"feat", "(scope)", "!", ": ", "text">>,
    <<"text">> }

ManualTagNames ==
  { <<"v", "1", ".", "0", ".", "0">>,
    <<"v", "1", ".", "0", ".", "0", "-", "rc", ".", "1">>,
    <<"v", "1", ".", "1", ".", "0", "-", "alpha", ".", "1">>,
    <<"some", "-", "tag">>,
    <<"zeta">> }

ManualBranchNames ==
  { <<"feature">>, <<"release", "-", "1", ".", "0", ".", "x">> }

Init ==
  /\ commits = <<[parent |-> 0, message |-> <<"text">>]>>
  /\ tags = EmptyMap
  /\ branches = (trunkBranchName :> 1)
  /\ HEAD = [ref |-> trunkBranchName, detached |-> FALSE, commit |-> 1]
  /\ run = Idle
  /\ call = NoCall

\* git commit on the current branch
Commit(m) ==
  /\ Len(commits) < MaxCommits
  /\ ~HEAD.detached
  /\ commits' = Append(commits, [parent |-> HEAD.commit, message |-> m])
  /\ branches' = [branches EXCEPT ![HEAD.ref] = Len(commits) + 1]
  /\ HEAD' = [HEAD EXCEPT !.commit = Len(commits) + 1]
  /\ run' = Idle
  /\ UNCHANGED <<tags, call>>

\* git tag <name>, by hand
ManualTag(t) ==
  /\ t \notin DOMAIN tags
  /\ Cardinality(DOMAIN tags \cap ManualTagNames) < MaxManualTags
  /\ tags' = (t :> HEAD.commit) @@ tags
  /\ run' = Idle
  /\ UNCHANGED <<commits, branches, HEAD, call>>

\* git checkout -b <name>, by hand
CreateBranch(b) ==
  /\ b \notin DOMAIN branches
  /\ Cardinality(DOMAIN branches \cap ManualBranchNames) < MaxManualBranches
  /\ branches' = (b :> HEAD.commit) @@ branches
  /\ HEAD' = [ref |-> b, detached |-> FALSE, commit |-> HEAD.commit]
  /\ run' = Idle
  /\ UNCHANGED <<commits, tags, call>>

\* git checkout <branch>, by hand
Checkout(b) ==
  /\ b \in DOMAIN branches
  /\ HEAD.detached \/ HEAD.ref # b
  /\ HEAD' = [ref |-> b, detached |-> FALSE, commit |-> branches[b]]
  /\ run' = Idle
  /\ UNCHANGED <<commits, tags, branches, call>>

\* one run of the action
Run(action, dryRun, pushOk) ==
  /\ run' = RunResult(Store, action, dryRun, pushOk)
  /\ tags' = run'.st.tags
  /\ branches' = run'.st.branches
  /\ HEAD' = run'.st.HEAD
  /\ UNCHANGED <<commits, call>>

Next ==
  \/ \E m \in CommitMessagePool : Commit(m)
  \/ \E t \in ManualTagNames : ManualTag(t)
  \/ \E b \in ManualBranchNames : CreateBranch(b)
  \/ \E b \in DOMAIN branches : Checkout(b)
  \/ \E action \in SupportedActions \cup {"deploy"}, dryRun \in BOOLEAN, pushOk \in BOOLEAN :
       (dryRun => pushOk) /\ Run(action, dryRun, pushOk)

Spec == Init /\ [][Next]_vars

\* A longer history under a narrower choice of inputs: three commits, so that
\* two commits follow a reference tag and two branches leave the root apart,
\* with release-cut as the action run.
DeepMessagePool ==
  { <<"feat", ": ", "text">>,
    <<"feat", "(scope)", "!", ": ", "text">>,
    <<"fix", "(scope)", ": ", "text">>,
    <<"text">> }

DeepTagNames == { <<"v", "1", ".", "0", ".", "0">> }

DeepBranchNames == { <<"feature">> }

\* git commit on the current branch, in the longer history
DeepCommit(m) ==
  /\ Len(commits) < MaxDeepCommits
  /\ ~HEAD.detached
  /\ commits' = Append(commits, [parent |-> HEAD.commit, message |-> m])
  /\ branches' = [branches EXCEPT ![HEAD.ref] = Len(commits) + 1]
  /\ HEAD' = [HEAD EXCEPT !.commit = Len(commits) + 1]
  /\ run' = Idle
  /\ UNCHANGED <<tags, call>>

NextDeep ==
  \/ \E m \in DeepMessagePool : DeepCommit(m)
  \/ \E t \in DeepTagNames : ManualTag(t)
  \/ \E b \in DeepBranchNames : CreateBranch(b)
  \/ \E b \in DOMAIN branches : Checkout(b)
  \/ \E dryRun \in BOOLEAN, pushOk \in BOOLEAN :
       (dryRun => pushOk) /\ Run("release-cut", dryRun, pushOk)

SpecDeep == Init /\ [][NextDeep]_vars

\* The longer history with a first commit whose message is of either kind.
RootMessagePool ==
  { <<"text">>,
    <<"feat", "(scope)", "!", ": ", "text">> }

InitRoot ==
  /\ commits \in {<<[parent |-> 0, message |-> m]>> : m \in RootMessagePool}
  /\ tags = EmptyMap
  /\ branches = (trunkBranchName :> 1)
  /\ HEAD = [ref |-> trunkBranchName, detached |-> FALSE, commit |-> 1]
  /\ run = Idle
  /\ call = NoCall

SpecRoot == InitRoot /\ [][NextDeep]_vars

\* Series of runs of both actions on a history of up to MaxSeriesCommits
\* commits, with a tag and a branch made by hand in between.
SeriesMessagePool ==
  { <<"feat", "(scope)", "!", ": ", "text">>,
    <<"fix", "(scope)", ": ", "text">> }

SeriesTagNames ==
  { <<"v", "1", ".", "0", ".", "0">>,
    <<"v", "1", ".", "0", ".", "0", "-", "rc", ".", "1">>,
    <<"v", "1", ".", "0", ".", "0", "-", "rc", ".", "1", "a">> }

SeriesBranchNames == { <<"feature">>, <<"release", "-", "1", ".", "0", ".", "x">> }

\* git commit on the current branch
SeriesCommit(m) ==
  /\ Len(commits) < MaxSeriesCommits
  /\ ~HEAD.detached
  /\ commits' = Append(commits, [parent |-> HEAD.commit, message |-> m])
  /\ branches' = [branches EXCEPT ![HEAD.ref] = Len(commits) + 1]
  /\ HEAD' = [HEAD EXCEPT !.commit = Len(commits) + 1]
  /\ run' = Idle
  /\ UNCHANGED <<tags, call>>

\* git tag <name>, by hand
SeriesTag(t) ==
  /\ t \notin DOMAIN tags
  /\ Cardinality(DOMAIN tags \cap SeriesTagNames) < MaxSeriesTags
  /\ tags' = (t :> HEAD.commit) @@ tags
  /\ run' = Idle
  /\ UNCHANGED <<commits, branches, HEAD, call>>

\* git checkout -b <name>, by hand
SeriesBranch(b) ==
  /\ b \notin DOMAIN branches
  /\ Cardinality(DOMAIN branches \cap SeriesBranchNames) < MaxSeriesBranches
  /\ branches' = (b :> HEAD.commit) @@ branches
  /\ HEAD' = [ref |-> b, detached |-> FALSE, commit |-> HEAD.commit]
  /\ run' = Idle
  /\ UNCHANGED <<commits, tags, call>>

NextSeries ==
  \/ \E m \in SeriesMessagePool : SeriesCommit(m)
  \/ \E t \in SeriesTagNames : SeriesTag(t)
  \/ \E b \in SeriesBranchNames : SeriesBranch(b)
  \/ \E b \in DOMAIN branches : Checkout(b)
  \/ \E action \in SupportedActions, dryRun \in BOOLEAN, pushOk \in BOOLEAN :
       (dryRun => pushOk) /\ Run(action, dryRun, pushOk)

SpecSeries == Init /\ [][NextSeries]_vars

\* A repository that only the two actions tag and branch: commits on the
\* trunk and on the release branches the cuts created, up to
\* MaxEngineCommits of them, and runs of release-cut and release.
EngineMessagePool ==
  { <<"feat", ": ", "text">>,
    <<"feat", "(scope)", "!", ": ", "text">>,
    <<"fix", "(scope)", ": ", "text">> }

\* git commit on the current branch
EngineCommit(m) ==
  /\ Len(commits) < MaxEngineCommits
  /\ ~HEAD.detached
  /\ commits' = Append(commits, [parent |-> HEAD.commit, message |-> m])
  /\ branches' = [branches EXCEPT ![HEAD.ref] = Len(commits) + 1]
  /\ HEAD' = [HEAD EXCEPT !.commit = Len(commits) + 1]
  /\ run' = Idle
  /\ UNCHANGED <<tags, call>>

NextEngine ==
  \/ \E m \in EngineMessagePool : EngineCommit(m)
  \/ \E b \in DOMAIN branches : Checkout(b)
  \/ \E action \in SupportedActions, dryRun \in BOOLEAN, pushOk \in BOOLEAN :
       (dryRun => pushOk) /\ Run(action, dryRun, pushOk)

SpecEngine == Init /\ [][NextEngine]_vars

\* ------------------------------------------- direct calls of the classifier
\* The messages the classifier is called with: every header of a few types,
\* with and without scope and "!", over bodies of none, one or two trailing
\* paragraphs with the breaking-change marker in any of them; and messages
\* that are not conventional commits.
ClassifierTypes == {"feat", "fix", "chore", "docs"}

BodyPool ==
  { <<>>,
    <<"\n">>,
    <<"\n", "\n", "text">>,
    <<"\n", "\n", "BREAKING CHANGE: ", "text">>,
    <<"\n", "\n", "text", "\n", "BREAKING CHANGE: ", "text">>,
    <<"\n", "\n", "text", "\n", "\n", "BREAKING CHANGE: ", "text">>,
    <<"\n", "\n", "BREAKING CHANGE: ", "text", "\n", "\n", "text">>,
    <<"\n", "\n", "text", "BREAKING CHANGE: ", "text">> }

ConformingPool ==
  { <<t>> \o scope \o bang \o <<": ", "text">> \o body :
      t \in ClassifierTypes, scope \in {<<>>, <<"(scope)">>}, bang \in {<<>>, <<"!">>},
      body \in BodyPool }

NonConformingPool ==
  { <<>>,
    <<"text">>,
    <<": ", "text">>,
    <<"feat", ": ">>,
    <<"feature", ": ", "text">>,
    <<"feat", "!", "(scope)", ": ", "text">>,
    <<"fix", ": ", "text", "\n", "BREAKING CHANGE: ", "text">>,
    <<"fix", ": ", "text", "\n", "\n", "\n", "text">> }

\* the messages the lists passed to the aggregation are made of
AggregatePool ==
  { <<"feat", ": ", "text">>,
    <<"fix", "(scope)", ": ", "text">>,
    <<"chore", ": ", "text">>,
    <<"docs", "!", ": ", "text">>,
    <<"fix", ": ", "text", "\n", "\n", "BREAKING CHANGE: ", "text">>,
    <<"text">> }

RECURSIVE ListsUpTo(_, _)
ListsUpTo(pool, n) ==
  IF n = 0 THEN {<<>>}
  ELSE ListsUpTo(pool, n - 1)
         \cup {Append(l, m) : l \in {k \in ListsUpTo(pool, n - 1) : Len(k) = n - 1}, m \in pool}

ClassifierInputs ==
  {<<m>> : m \in ConformingPool \cup NonConformingPool} \cup ListsUpTo(AggregatePool, MaxMessages)

InitClassifier ==
  /\ commits = <<[parent |-> 0, message |-> <<"text">>]>>
  /\ tags = EmptyMap
  /\ branches = (trunkBranchName :> 1)
  /\ HEAD = [ref |-> trunkBranchName, detached |-> FALSE, commit |-> 1]
  /\ run = Idle
  /\ call \in {[fn |-> "", arg |-> l, result |-> <<>>] : l \in ClassifierInputs}

\* parseReleaseTypeFromCommitMessage(message)
CallParseReleaseType ==
  /\ call.fn = ""
  /\ Len(call.arg) = 1
  /\ call' = [fn |-> "parseReleaseTypeFromCommitMessage", arg |-> call.arg,
              result |-> parseReleaseTypeFromCommitMessage(call.arg[1])]
  /\ UNCHANGED <<commits, tags, branches, HEAD, run>>

\* releaseTypeFromCommitMessages(commitMessages)
CallReleaseTypeFromCommitMessages ==
  /\ call.fn = ""
  /\ call' = [fn |-> "releaseTypeFromCommitMessages", arg |-> call.arg,
              result |-> releaseTypeFromCommitMessages(call.arg)]
  /\ UNCHANGED <<commits, tags, branches, HEAD, run>>

NextClassifier ==
  \/ CallParseReleaseType
  \/ CallReleaseTypeFromCommitMessages

SpecClassifier == InitClassifier /\ [][NextClassifier]_vars

\* --------------------------------------- direct calls of the version class
\* The strings a version is constructed from: with and without the v, the
\* three numbers from a small range and a two-digit one, a prerelease of
\* several shapes or none, build metadata or none; and strings that are not
\* semantic versions.
NumberPool == (0..MaxNumber) \cup {10}

PrereleasePool ==
  { <<"rc", ".", "1">>,
    <<"rc", ".", "9">>,
    <<"rc", ".", "1", ".", "0">>,
    <<"alpha">>,
    <<"foo", ".", "bar">>,
    <<"rc", ".", "1", "a">>,
    <<"rc", ".", "-", "1">>,
    <<"rc", "-", "1">>,
    <<"1">> }

BuildPool == { <<"build", ".", "0", "0", "1">> }

ValidVersionPool ==
  { prefix \o NumToString(major) \o <<".">> \o NumToString(minor) \o <<".">>
      \o NumToString(patch) \o pre \o build :
      prefix \in {<<>>, <<"v">>}, major \in NumberPool, minor \in NumberPool,
      patch \in NumberPool,
      pre \in {<<>>} \cup {<<"-">> \o p : p \in PrereleasePool},
      build \in {<<>>} \cup {<<"+">> \o b : b \in BuildPool} }

InvalidVersionPool ==
  { <<>>,
    <<"v">>,
    <<"1", ".", "0">>,
    <<"0", "1", ".", "0", ".", "0">>,
    <<"1", ".", "0", ".", "0", ".", "0">>,
    <<"v", "1", ".", "0", ".", "0", "-">>,
    <<"v", "1", ".", "0", ".", "0", "-", "0", "1">>,
    <<"v", "1", ".", "0", ".", "0", "-", "rc", ".", ".", "1">>,
    <<"v", "1", ".", "0", ".", "0", "+">>,
    <<"version", "-", "1", ".", "0", ".", "0">>,
    <<"some", "-", "tag">> }

InitVersion ==
  /\ commits = <<[parent |-> 0, message |-> <<"text">>]>>
  /\ tags = EmptyMap
  /\ branches = (trunkBranchName :> 1)
  /\ HEAD = [ref |-> trunkBranchName, detached |-> FALSE, commit |-> 1]
  /\ run = Idle
  /\ call \in {[fn |-> "", arg |-> s, result |-> <<>>] :
                 s \in ValidVersionPool \cup InvalidVersionPool}

\* new SemanticVersion(version): the object, or the error thrown
CallConstructor ==
  /\ call.fn = ""
  /\ call' = [fn |-> "SemanticVersion", arg |-> call.arg,
              result |-> IF IsSemVer(call.arg) THEN SemanticVersion(call.arg)
                         ELSE "Invalid semantic version format"]
  /\ UNCHANGED <<commits, tags, branches, HEAD, run>>

\* new SemanticVersion(version).bumpMajor()
CallBumpMajor ==
  /\ call.fn = ""
  /\ IsSemVer(call.arg)
  /\ call' = [fn |-> "bumpMajor", arg |-> call.arg,
              result |-> bumpMajor(SemanticVersion(call.arg))]
  /\ UNCHANGED <<commits, tags, branches, HEAD, run>>

\* new SemanticVersion(version).bumpMinor()
CallBumpMinor ==
  /\ call.fn = ""
  /\ IsSemVer(call.arg)
  /\ call' = [fn |-> "bumpMinor", arg |-> call.arg,
              result |-> bumpMinor(SemanticVersion(call.arg))]
  /\ UNCHANGED <<commits, tags, branches, HEAD, run>>

\* new SemanticVersion(version).bumpPatch()
CallBumpPatch ==
  /\ call.fn = ""
  /\ IsSemVer(call.arg)
  /\ call' = [fn |-> "bumpPatch", arg |-> call.arg,
              result |-> bumpPatch(SemanticVersion(call.arg))]
  /\ UNCHANGED <<commits, tags, branches, HEAD, run>>

\* new SemanticVersion(version).toString()
CallToString ==
  /\ call.fn = ""
  /\ IsSemVer(call.arg)
  /\ call' = [fn |-> "toString", arg |-> call.arg,
              result |-> toString(SemanticVersion(call.arg))]
  /\ UNCHANGED <<commits, tags, branches, HEAD, run>>

NextVersion ==
  \/ CallConstructor
  \/ CallBumpMajor
  \/ CallBumpMinor
  \/ CallBumpPatch
  \/ CallToString

SpecVersion == InitVersion /\ [][NextVersion]_vars

\* ----------------------------------- direct calls of the branch tests
\* The configurations and branch names the two branch tests are called with:
\* trunk names that match the release-branch pattern and that do not, and
\* branch names that match it, nearly match it or are something else.
TrunkNamePool ==
  { <<"main">>,
    <<"develop">>,
    <<"release", "-", "1", ".", "0", ".", "x">>,
    <<"release", "-", "0", ".", "1", ".", "x">>,
    <<"release">> }

BranchNamePool ==
  { <<"main">>,
    <<"develop">>,
    <<"feature">>,
    <<"release">>,
    <<"release", "-", "1", ".", "0", ".", "x">>,
    <<"release", "-", "0", ".", "1", ".", "x">>,
    <<"release", "-", "1", "0", ".", "2", ".", "x">>,
    <<"release", "-", "1", ".", "0">>,
    <<"release", "-", "0", "1", ".", "0", ".", "x">>,
    <<"release", "-", "1", ".", "0", ".", "x", "-", "rc">>,
    <<"feature", "-", "release", "-", "1", ".", "0", ".", "x">>,
    <<"v", "1", ".", "0", ".", "0">> }

InitBranch ==
  /\ commits = <<[parent |-> 0, message |-> <<"text">>]>>
  /\ tags = EmptyMap
  /\ branches = (trunkBranchName :> 1)
  /\ HEAD = [ref |-> trunkBranchName, detached |-> FALSE, commit |-> 1]
  /\ run = Idle
  /\ call \in {[fn |-> "", result |-> <<>>,
                arg |-> [currentBranch |-> b, trunkBranchName |-> t,
                         releaseBranchRegex |-> releaseBranchRegex]] :
                 b \in BranchNamePool, t \in TrunkNamePool}

\* the branch test of the release action
CallReleaseBranchTest ==
  /\ call.fn = ""
  /\ call' = [call EXCEPT !.fn = "release",
                          !.result = ReleaseBranchErrorFor(call.arg.currentBranch,
                                                           call.arg.releaseBranchRegex)]
  /\ UNCHANGED <<commits, tags, branches, HEAD, run>>

\* the branch type of the release-cut action
CallBranchType ==
  /\ call.fn = ""
  /\ call' = [call EXCEPT !.fn = "release-cut",
                          !.result = BranchTypeFor(call.arg.currentBranch,
                                                   call.arg.trunkBranchName,
                                                   call.arg.releaseBranchRegex)]
  /\ UNCHANGED <<commits, tags, branches, HEAD, run>>

NextBranch ==
  \/ CallReleaseBranchTest
  \/ CallBranchType

SpecBranch == InitBranch /\ [][NextBranch]_vars

\* ------------------------------------------- direct calls of the git queries
\* Repositories of up to MaxQueryCommits commits on the trunk and a branch
\* that diverges from it, with up to MaxQueryTags tags, and the queries
\* getTags and getCommitMessages asked of them.
QueryMessagePool ==
  { <<"feat", ": ", "text">>,
    <<"fix", "(scope)", ": ", "text">> }

QueryTagNames ==
  { <<"v", "1", ".", "0", ".", "0">>,
    <<"v", "1", ".", "0", ".", "0", "-", "rc", ".", "1">>,
    <<"v", "1", ".", "0", ".", "0", "-", "alpha", ".", "1">>,
    <<"v", "1", ".", "2", ".", "0">>,
    <<"v", "1", ".", "1", "0", ".", "0">>,
    <<"2", ".", "0", ".", "0">> }

QueryBranchNames == { <<"feature">> }

QueryCommit(m) ==
  /\ Len(commits) < MaxQueryCommits
  /\ ~HEAD.detached
  /\ commits' = Append(commits, [parent |-> HEAD.commit, message |-> m])
  /\ branches' = [branches EXCEPT ![HEAD.ref] = Len(commits) + 1]
  /\ HEAD' = [HEAD EXCEPT !.commit = Len(commits) + 1]
  /\ UNCHANGED <<tags, run, call>>

QueryTag(t) ==
  /\ t \notin DOMAIN tags
  /\ Cardinality(DOMAIN tags) < MaxQueryTags
  /\ tags' = (t :> HEAD.commit) @@ tags
  /\ UNCHANGED <<commits, branches, HEAD, run, call>>

\* getTags(git, ref), ref a branch
CallGetTags(ref) ==
  /\ call' = [fn |-> "getTags", arg |-> ref, result |-> getTags(Store, branches[ref])]
  /\ UNCHANGED <<commits, tags, branches, HEAD, run>>

\* getCommitMessages(git, from, to), from and to commit hashes
CallGetCommitMessages(from, to) ==
  /\ call' = [fn |-> "getCommitMessages", arg |-> <<from, to>>,
              result |-> getCommitMessages(from, to)]
  /\ UNCHANGED <<commits, tags, branches, HEAD, run>>

NextQueries ==
  \/ call = NoCall /\ \E m \in QueryMessagePool : QueryCommit(m)
  \/ call = NoCall /\ \E t \in QueryTagNames : QueryTag(t)
  \/ call = NoCall /\ \E b \in QueryBranchNames : CreateBranch(b)
  \/ call = NoCall /\ \E b \in DOMAIN branches : Checkout(b)
  \/ call = NoCall /\ \E ref \in DOMAIN branches : CallGetTags(ref)
  \/ call = NoCall /\ \E from \in 1..Len(commits), to \in 1..Len(commits) :
                        CallGetCommitMessages(from, to)

SpecQueries == Init /\ [][NextQueries]_vars

\* ------------------------------- direct calls of generateReleaseBranchName
\* The templates and versions the function is called with: the default
\* template and the one of the unit test, templates without a placeholder,
\* and templates that name a placeholder more than once.
TemplatePool ==
  { <<"release", "-", "${major}", ".", "${minor}", ".", "x">>,
    <<"release", "-", "${major}", ".", "${minor}", ".", "${patch}", "-", "${prerelease}">>,
    <<"release">>,
    <<>>,
    <<"${prerelease}">>,
    <<"v", "${major}", "-", "release", "-", "${major}", ".", "${minor}", ".", "x">>,
    <<"release", "-", "${minor}", ".", "${minor}">>,
    <<"${patch}", "${patch}", "${patch}">>,
    <<"release", "-", "${prerelease}", "-", "${major}", "-", "${prerelease}">>,
    <<"${minor}", ".", "${major}">> }

TemplateVersionPool ==
  { <<"1", ".", "0", ".", "0", "-", "rc", ".", "1">>,
    <<"2", ".", "3", ".", "4", "-", "rc", ".", "5">>,
    <<"v", "0", ".", "1", ".", "0">>,
    <<"v", "1", ".", "0", ".", "0">>,
    <<"v", "1", "0", ".", "2", ".", "1", "-", "alpha", ".", "1">>,
    <<"v", "0", ".", "0", ".", "0", "-", "rc", ".", "1">>,
    <<"v", "1", ".", "2", ".", "3", "-", "rc", "-", "1">>,
    <<"1", ".", "1", ".", "1">>,
    <<"v", "2", ".", "0", ".", "0", "-", "1">>,
    <<"v", "0", ".", "1", "0", ".", "0", "-", "rc", ".", "1", "0">> }

InitTemplate ==
  /\ commits = <<[parent |-> 0, message |-> <<"text">>]>>
  /\ tags = EmptyMap
  /\ branches = (trunkBranchName :> 1)
  /\ HEAD = [ref |-> trunkBranchName, detached |-> FALSE, commit |-> 1]
  /\ run = Idle
  /\ call \in {[fn |-> "", result |-> <<>>, arg |-> [template |-> t, version |-> v]] :
                 t \in TemplatePool, v \in TemplateVersionPool}

\* generateReleaseBranchName(template, new SemanticVersion(version))
CallGenerateReleaseBranchName ==
  /\ call.fn = ""
  /\ call' = [call EXCEPT !.fn = "generateReleaseBranchName",
                          !.result = generateReleaseBranchName(
                                       call.arg.template, SemanticVersion(call.arg.version))]
  /\ UNCHANGED <<commits, tags, branches, HEAD, run>>

NextTemplate == CallGenerateReleaseBranchName

SpecTemplate == InitTemplate /\ [][NextTemplate]_vars

\* ------------------------------------------------------------- properties
\* A state after Run holds the record of that run, and tags, branches and
\* HEAD are the store the run left; run.pre is the store it started from.
CutRan == run.action = "release-cut"

ReleaseRan == run.action = "release"

\* a prerelease of the form rc.N, N a positive integer
IsRcN(prerelease) ==
  /\ Len(prerelease) >= 3
  /\ prerelease[1] = "rc"
  /\ prerelease[2] = "."
  /\ IsNumeric(SubSeq(prerelease, 3, Len(prerelease)))
  /\ DigitsValue(SubSeq(prerelease, 3, Len(prerelease))) > 0

\* C1: in release-cut, when the release type of the commits since the
\* reference tag is major or minor and the current branch is not the trunk,
\* the run fails with the placement error of that type (major or minor only
\* on the trunk), and the tags and the branches are those of the start.
C1_MajorMinorOnlyOnTrunk ==
  (CutRan /\ run.releaseType \in {MAJOR, MINOR} /\ run.currentBranch # trunkBranchName)
    => /\ run.status = "failed"
       /\ run.error = IF run.releaseType = MINOR THEN "MinorOffTrunk" ELSE "MajorOffTrunk"
       /\ tags = run.pre.tags
       /\ branches = run.pre.branches

C1_Witness ==
  /\ CutRan
  /\ run.releaseType \in {MAJOR, MINOR}
  /\ isReleaseBranch(run.currentBranch, releaseBranchRegex)
  /\ run.error \in {"MinorOffTrunk", "MajorOffTrunk"}

\* C2: in release-cut, when the release type is patch and the current branch
\* is the trunk, the run fails with the patch-only-on-a-release-branch
\* error, and the tags, the branches and the active branch are exactly those
\* of the start of the run.
C2_PatchOnlyOnReleaseBranch ==
  (CutRan /\ run.releaseType = PATCH /\ run.currentBranch = trunkBranchName)
    => /\ run.status = "failed"
       /\ run.error = "PatchOnTrunk"
       /\ Store = run.pre

C2_Witness ==
  /\ CutRan
  /\ run.releaseType = PATCH
  /\ run.currentBranch = trunkBranchName
  /\ run.error = "PatchOnTrunk"

\* C3: a successful release-cut started on the trunk creates exactly one new
\* branch, named by the template rendered with the bumped version and placed
\* on the commit that was HEAD at the start, and exactly one new tag, the rc
\* tag of that version, on the same commit; the new branch is the active
\* branch, and the trunk is on the commit it was on.
C3_CutFromTrunk ==
  (CutRan /\ run.status = "ok" /\ run.currentBranch = trunkBranchName)
    => LET name == generateReleaseBranchName(releaseBranchStringTemplate,
                                             SemanticVersion(run.outputs.nextVersion))
           tag  == run.outputs.nextVersion
           at   == run.pre.HEAD.commit
       IN  /\ name \notin DOMAIN run.pre.branches
           /\ branches = (name :> at) @@ run.pre.branches
           /\ tag \notin DOMAIN run.pre.tags
           /\ tags = (tag :> at) @@ run.pre.tags
           /\ IsRcN(SemanticVersion(tag).prerelease)
           /\ HEAD = [ref |-> name, detached |-> FALSE, commit |-> at]
           /\ branches[trunkBranchName] = run.pre.branches[trunkBranchName]

C3_Witness ==
  /\ CutRan
  /\ run.status = "ok"
  /\ run.currentBranch = trunkBranchName
  /\ Cardinality(DOMAIN branches) = Cardinality(DOMAIN run.pre.branches) + 1

\* C4: a release-cut started on the trunk whose rendered branch name is the
\* name of a branch of the store fails with the branch-already-exists error;
\* no tag is created and the active branch is the one of the start.
C4_BranchAlreadyExists ==
  (CutRan /\ run.currentBranch = trunkBranchName /\ run.branchCutName \in DOMAIN run.pre.branches)
    => /\ run.status = "failed"
       /\ run.error = "BranchExists"
       /\ tags = run.pre.tags
       /\ branches = run.pre.branches
       /\ HEAD = run.pre.HEAD

C4_Witness ==
  /\ CutRan
  /\ run.currentBranch = trunkBranchName
  /\ run.branchCutName \in DOMAIN run.pre.branches
  /\ run.error = "BranchExists"

\* C5: a successful release-cut started on a release branch creates exactly
\* one new tag, the rc tag of the bumped version, on the commit that is
\* HEAD; it creates no branch, and the active branch and the commit of every
\* branch are those of the start.
C5_CutFromReleaseBranch ==
  (CutRan /\ run.status = "ok" /\ isReleaseBranch(run.currentBranch, releaseBranchRegex))
    => /\ run.outputs.nextVersion \notin DOMAIN run.pre.tags
       /\ tags = (run.outputs.nextVersion :> run.pre.HEAD.commit) @@ run.pre.tags
       /\ branches = run.pre.branches
       /\ HEAD = run.pre.HEAD

C5_Witness ==
  /\ CutRan
  /\ run.status = "ok"
  /\ isReleaseBranch(run.currentBranch, releaseBranchRegex)
  /\ Cardinality(DOMAIN tags) = Cardinality(DOMAIN run.pre.tags) + 1

\* the prerelease of the reference tag of the last release-cut (<<>> for none)
ReferencePrerelease ==
  IF run.latestTag = <<>> THEN <<>> ELSE SemanticVersion(run.latestTag).prerelease

\* next is the prerelease ref with the number of its last dot-part raised by
\* one, or, that part having no number, ref followed by ".1"
Advanced(ref, next) ==
  LET last(parts) == parts[Len(parts)]
      n == Len(Split(ref, "."))
  IN  IF parseInt(last(Split(ref, "."))) = NaN
      THEN next = ref \o <<".", "1">>
      ELSE /\ Len(Split(next, ".")) = n
           /\ \A i \in 1..(n - 1) : Split(next, ".")[i] = Split(ref, ".")[i]
           /\ parseInt(last(Split(next, "."))) = parseInt(last(Split(ref, "."))) + 1

\* C6 as stated: every successful release-cut, whatever its reference tag,
\* reports and tags a version whose prerelease is rc.N, N a positive integer.
C6_AlwaysRcN ==
  (CutRan /\ run.status = "ok")
    => IsRcN(SemanticVersion(run.outputs.nextVersion).prerelease)

\* C6: a successful release-cut reports and tags a version whose prerelease
\* is rc.N, N a positive integer, when the bump is major or minor or the
\* reference tag is absent, stable or itself an rc.N; a patch bump of a
\* reference with any other prerelease keeps that prerelease, the number of
\* its last dot-part raised by one or ".1" appended.  The reported version
\* is the tag created.
C6_CutVersionPrerelease ==
  (CutRan /\ run.status = "ok")
    => /\ run.outputs.nextVersion \in DOMAIN tags \ DOMAIN run.pre.tags
       /\ IF \/ run.releaseType \in {MAJOR, MINOR}
             \/ ReferencePrerelease = <<>>
             \/ IsRcN(ReferencePrerelease)
          THEN IsRcN(SemanticVersion(run.outputs.nextVersion).prerelease)
          ELSE Advanced(ReferencePrerelease, SemanticVersion(run.outputs.nextVersion).prerelease)

C6_Witness ==
  /\ CutRan
  /\ run.status = "ok"
  /\ run.releaseType = PATCH
  /\ IsRcN(ReferencePrerelease)
  /\ IsRcN(SemanticVersion(run.outputs.nextVersion).prerelease)

\* C7: the release action started on a branch whose name does not match the
\* release-branch pattern, the trunk included, fails with the
\* not-a-release-branch error, and the tags are those of the start.
C7_NotAReleaseBranch ==
  (ReleaseRan /\ ~isReleaseBranch(getCurrentBranch(run.pre), releaseBranchRegex))
    => /\ run.status = "failed"
       /\ run.error = "NotAReleaseBranch"
       /\ tags = run.pre.tags

C7_Witness ==
  /\ ReleaseRan
  /\ getCurrentBranch(run.pre) = trunkBranchName
  /\ Len(SelectSeq(getTagsAtHEAD(run.pre), IsCandidateTag)) = 1
  /\ run.error = "NotAReleaseBranch"

\* C8: the release-cut action started on a branch that is neither the trunk
\* nor a release branch fails with the branch-classification error, whatever
\* the commits and the tags; the tags and the branches are those of the start.
C8_NeitherTrunkNorRelease ==
  (/\ CutRan
   /\ getCurrentBranch(run.pre) # trunkBranchName
   /\ ~isReleaseBranch(getCurrentBranch(run.pre), releaseBranchRegex))
    => /\ run.status = "failed"
       /\ run.error = "NotTrunkOrRelease"
       /\ tags = run.pre.tags
       /\ branches = run.pre.branches

C8_Witness ==
  /\ CutRan
  /\ run.error = "NotTrunkOrRelease"
  /\ ~run.pre.HEAD.detached
  /\ Len(commits) > 1
  /\ DOMAIN run.pre.tags # {}

\* the release action got as far as the tags at HEAD, and there is one at least
ReleaseWithTagsAtHEAD ==
  /\ ReleaseRan
  /\ isReleaseBranch(getCurrentBranch(run.pre), releaseBranchRegex)
  /\ getTagsAtHEAD(run.pre) # <<>>

CandidatesAtHEAD == SelectSeq(getTagsAtHEAD(run.pre), IsCandidateTag)

StablesAtHEAD == SelectSeq(getTagsAtHEAD(run.pre), IsStableTag)

\* C9 as stated: no candidate among the tags at HEAD is the no-candidate
\* error; several are the ambiguous-candidates error, whose message names
\* exactly the candidate tags, in the order of the query.
C9_ListsCandidatesOnly ==
  ReleaseWithTagsAtHEAD
    => /\ Len(CandidatesAtHEAD) = 0 => run.error = "NoCandidate"
       /\ Len(CandidatesAtHEAD) > 1
            => run.error = "MultipleCandidates" /\ run.listed = CandidatesAtHEAD

\* C9: in the release action with a tag at HEAD, no candidate among the tags
\* at HEAD is the no-candidate error; several are the ambiguous-candidates
\* error, whose message names every tag at HEAD, candidate or not, in the
\* order of the query.  No tag is created.
C9_CandidateCount ==
  ReleaseWithTagsAtHEAD
    => /\ Len(CandidatesAtHEAD) = 0 => run.error = "NoCandidate"
       /\ Len(CandidatesAtHEAD) > 1
            => run.error = "MultipleCandidates" /\ run.listed = getTagsAtHEAD(run.pre)
       /\ Len(CandidatesAtHEAD) # 1 => run.status = "failed" /\ tags = run.pre.tags

C9_Witness ==
  /\ ReleaseWithTagsAtHEAD
  /\ Len(CandidatesAtHEAD) > 1
  /\ run.error = "MultipleCandidates"
  /\ \E i \in 1..Len(run.listed) : ~IsCandidateTag(run.listed[i])

\* C10 as stated: one candidate and a stable tag at HEAD are the
\* already-released error, whose message lists the stable tags at HEAD and
\* only those; no tag is created.
C10_ListsStableOnly ==
  (ReleaseWithTagsAtHEAD /\ Len(CandidatesAtHEAD) = 1 /\ Len(StablesAtHEAD) >= 1)
    => /\ run.error = "AlreadyReleased"
       /\ run.listed = StablesAtHEAD
       /\ tags = run.pre.tags

\* C10: in the release action, one candidate and a stable tag at HEAD are
\* the already-released error, whose message lists every tag at HEAD, the
\* candidate with the stable tags, in the order of the query; no tag is
\* created.
C10_AlreadyReleased ==
  (ReleaseWithTagsAtHEAD /\ Len(CandidatesAtHEAD) = 1 /\ Len(StablesAtHEAD) >= 1)
    => /\ run.status = "failed"
       /\ run.error = "AlreadyReleased"
       /\ run.listed = getTagsAtHEAD(run.pre)
       /\ \A i \in 1..Len(StablesAtHEAD) : \E j \in 1..Len(run.listed) : run.listed[j] = StablesAtHEAD[i]
       /\ tags = run.pre.tags

C10_Witness ==
  /\ ReleaseWithTagsAtHEAD
  /\ Len(CandidatesAtHEAD) = 1
  /\ Len(StablesAtHEAD) >= 1
  /\ run.error = "AlreadyReleased"

\* The candidate a successful release promoted: the one release candidate
\* among the tags at HEAD at the start of the run.
PromotedCandidate == CandidatesAtHEAD[1]

ReleaseSucceeded == ReleaseRan /\ run.status = "ok"

\* C11: a successful release creates exactly one new tag, named by the
\* candidate's version with the prerelease cleared (so not a prerelease), on
\* the commit of the candidate; no other tag and no branch changes, and the
\* active branch is still the release branch the run started on.
C11_OnlyANewTag ==
  ReleaseSucceeded
    => LET released == toString(versionMakeRelease(SemanticVersion(PromotedCandidate)))
       IN  /\ Len(CandidatesAtHEAD) = 1
           /\ released \notin DOMAIN run.pre.tags
           /\ tags = (released :> run.pre.tags[PromotedCandidate]) @@ run.pre.tags
           /\ IsStableTag(released)
           /\ branches = run.pre.branches
           /\ HEAD = run.pre.HEAD

\* Precedence of semantic versions (semver.org, item 11), for the names of
\* two tags that parse: major, minor and patch compare as numbers; a
\* prerelease precedes the version without one; prereleases compare
\* identifier by identifier, numbers below names, and a prefix is lower.
PrecedesIdent(x, y) ==
  IF IsNumeric(x) /\ IsNumeric(y) THEN DigitsValue(x) < DigitsValue(y)
  ELSE IF IsNumeric(x) # IsNumeric(y) THEN IsNumeric(x)
  ELSE RefnameLess(x, y)

PrecedesPrerelease(p, q) ==
  LET cmp(ps, qs) ==
        \E i \in 1..(Len(qs)) :
          /\ \A j \in 1..(i - 1) : j <= Len(ps) /\ ps[j] = qs[j]
          /\ (i > Len(ps) \/ PrecedesIdent(ps[i], qs[i]))
  IN  cmp(Split(p, "."), Split(q, "."))

SemverPrecedes(a, b) ==
  LET cmp(va, vb) ==
        IF va.major # vb.major THEN va.major < vb.major
        ELSE IF va.minor # vb.minor THEN va.minor < vb.minor
        ELSE IF va.patch # vb.patch THEN va.patch < vb.patch
        ELSE IF va.prerelease = <<>> THEN FALSE
        ELSE IF vb.prerelease = <<>> THEN TRUE
        ELSE PrecedesPrerelease(va.prerelease, vb.prerelease)
  IN  cmp(SemanticVersion(a), SemanticVersion(b))

\* t is a highest version of the set S of names that parse, or <<>> for none
IsHighestOf(t, S) ==
  IF S = {} THEN t = <<>>
  ELSE t \in S /\ \A u \in S : ~SemverPrecedes(t, u)

StableReachable(st, c) == {t \in TagsMerged(st, c) : IsStableTag(t)}

\* C12: on a successful release, previousStableVersion is the highest stable
\* tag reachable from the current release branch at the start of the run
\* (empty when none is reachable), also when a higher stable tag sits on a
\* branch that is not an ancestor; it is never the tag this run created.
C12_PreviousStableFromBranch ==
  ReleaseSucceeded
    => /\ IsHighestOf(run.outputs.previousStableVersion,
                      StableReachable(run.pre, run.pre.branches[run.currentBranch]))
       /\ run.outputs.previousStableVersion # run.outputs.nextVersion

\* commit d is commit c or is met walking the parents from c
RECURSIVE OnHistoryOf(_, _)
OnHistoryOf(d, c) == c # 0 /\ (d = c \/ OnHistoryOf(d, commits[c].parent))

\* the tag t is bound to the commit of the ref or to one of its ancestors
TagReachable(t, c) == t \in DOMAIN tags /\ OnHistoryOf(tags[t], c)

\* C13: the three queries parameterised by a ref (all reachable tags, latest
\* tag, latest stable tag), asked of any branch of the store, return only
\* tags bound to the branch's commit or to one of its ancestors.
C13_QueriesScopedToRef ==
  \A b \in DOMAIN branches :
    /\ \A i \in 1..Len(getTags(Store, branches[b])) :
         TagReachable(getTags(Store, branches[b])[i], branches[b])
    /\ getLatestTag(Store, branches[b]) # <<>>
         => TagReachable(getLatestTag(Store, branches[b]), branches[b])
    /\ getLatestStableTag(Store) # <<>>
         => TagReachable(getLatestStableTag(Store), branches[b])

\* C14: the latest-tag query of a branch returns a tag of the highest
\* semantic version among the tags reachable from it, whatever tags that are
\* not semantic versions are reachable too, and the empty string when no tag
\* is reachable.
C14_LatestIsHighestSemver ==
  \A b \in DOMAIN branches :
    /\ TagsMerged(Store, branches[b]) = {} => getLatestTag(Store, branches[b]) = <<>>
    /\ {t \in TagsMerged(Store, branches[b]) : IsSemVer(t)} # {}
         => IsHighestOf(getLatestTag(Store, branches[b]),
                        {t \in TagsMerged(Store, branches[b]) : IsSemVer(t)})

\* a state that holds the record of a run
RunEnded == run.action # ""

\* C15: a run that ends without an error sets the three outputs, to the
\* versions the action computed; a run that fails, on a check, on a mutation
\* of the store or on the publish step, sets none of them.
C15_OutputsIffSuccess ==
  RunEnded
    => /\ run.error = "" <=> run.outputs.set
       /\ run.error = "" <=> run.status = "ok"
       /\ run.outputs.set
            => /\ run.outputs.nextVersion = run.nextVersion
               /\ run.outputs.nextVersion # <<>>
               /\ run.outputs.previousVersion = run.previousVersion
               /\ run.outputs.previousStableVersion = run.previousStableVersion
       /\ ~run.outputs.set
            => /\ run.outputs.nextVersion = <<>>
               /\ run.outputs.previousVersion = <<>>
               /\ run.outputs.previousStableVersion = <<>>

\* a run whose action succeeded and created a tag, and whose publish failed
C15_Witness ==
  /\ RunEnded
  /\ run.error = "PushFailed"
  /\ run.nextVersion \in DOMAIN tags
  /\ run.nextVersion \notin DOMAIN run.pre.tags
  /\ ~run.outputs.set

\* the places of step in the sequence of steps a run took
Places(step) == {i \in 1..Len(run.ops) : run.ops[i] = step}

\* C16: a run publishes at most once, as its last step, after the branch
\* creation and the tag creation (in that order); never when a check or a
\* mutation failed, never in dry-run; a run that is not dry-run and whose
\* checks and mutations succeeded publishes exactly once.
C16_PublishOnceAfterMutations ==
  RunEnded
    => /\ Cardinality(Places("publish")) <= 1
       /\ Cardinality(Places("publish")) = run.published
       /\ Places("publish") # {}
            => /\ Places("publish") = {Len(run.ops)}
               /\ ~run.dryRun
               /\ run.error \in {"", "PushFailed"}
       /\ \A i \in Places("branch"), j \in Places("tag") : i < j
       /\ (~run.dryRun /\ run.error \in {"", "PushFailed"})
            => Cardinality(Places("publish")) = 1
       /\ run.dryRun => run.error # "PushFailed"

C16_Witness ==
  /\ RunEnded
  /\ run.ops = <<"branch", "tag", "publish">>
  /\ ~run.dryRun

CutSucceeded == CutRan /\ run.status = "ok"

\* C17: on a successful release-cut, previousVersion is the name of the
\* reference tag (empty when there is none), nextVersion is the name of the
\* tag the run created, and previousStableVersion is the latest stable tag
\* reachable from the current branch at the start (empty when none is).
C17_CutOutputs ==
  CutSucceeded
    => /\ run.outputs.previousVersion = run.latestTag
       /\ run.outputs.nextVersion \notin DOMAIN run.pre.tags
       /\ tags = (run.outputs.nextVersion :> run.pre.HEAD.commit) @@ run.pre.tags
       /\ IsHighestOf(run.outputs.previousStableVersion,
                      StableReachable(run.pre, run.pre.branches[run.currentBranch]))

\* the tags of the start of the run on the history of the current branch
ReachableAtStart ==
  {t \in DOMAIN run.pre.tags :
     OnHistoryOf(run.pre.tags[t], run.pre.branches[run.currentBranch])}

\* a release-cut that passed the test of the current branch
CutOnValidBranch == CutRan /\ run.error # "NotTrunkOrRelease"

\* C18: the reference tag of release-cut is the last, in the version order of
\* the tag listing, of the tags reachable from the current branch, whatever
\* tags the trunk or the rest of the repository carry; when no tag is
\* reachable there is no reference tag, the version bumped is v0.0.0 and
\* previousVersion is empty: a successful major cut gives v1.0.0-rc.1, a
\* successful minor cut v0.1.0-rc.1.
C18_ReferenceFromCurrentBranch ==
  CutOnValidBranch
    => /\ ReachableAtStart = {} => run.latestTag = <<>>
       /\ ReachableAtStart # {}
            => /\ run.latestTag \in ReachableAtStart
               /\ \A u \in ReachableAtStart : ~VersionLess(run.latestTag, u)
       /\ (ReachableAtStart = {} /\ run.status = "ok")
            => /\ run.outputs.previousVersion = <<>>
               /\ run.releaseType = MAJOR
                    => run.outputs.nextVersion =
                         <<"v", "1", ".", "0", ".", "0", "-", "rc", ".", "1">>
               /\ run.releaseType = MINOR
                    => run.outputs.nextVersion =
                         <<"v", "0", ".", "1", ".", "0", "-", "rc", ".", "1">>

\* a successful major cut with no tag reachable while the repository has a tag
C18_Witness ==
  /\ CutOnValidBranch
  /\ run.status = "ok"
  /\ ReachableAtStart = {}
  /\ run.pre.tags # EmptyMap
  /\ run.releaseType = MAJOR
  /\ run.outputs.nextVersion = <<"v", "1", ".", "0", ".", "0", "-", "rc", ".", "1">>

\* a release-cut that got a reference version: the branch test passed and
\* the reference tag, if there is one, parses
CutWithReference ==
  CutOnValidBranch /\ (run.latestTag = <<>> \/ IsSemVer(run.latestTag))

\* the commit the history of the cut starts after: that of the reference
\* tag, or the root commit when there is no reference tag
HistoryStart ==
  IF run.latestTag # <<>> THEN run.pre.tags[run.latestTag]
  ELSE CHOOSE c \in 1..Len(commits) :
         commits[c].parent = 0 /\ OnHistoryOf(c, run.pre.HEAD.commit)

\* the commits strictly after the start of the history, up to HEAD
CommitsSinceReference ==
  {c \in 1..Len(commits) :
     OnHistoryOf(c, run.pre.HEAD.commit) /\ ~OnHistoryOf(c, HistoryStart)}

\* C19: a release-cut with no commit strictly after the reference tag up to
\* HEAD fails with the no-commits error; one with such commits, none of
\* which is of a type that bumps the version, fails with the
\* no-qualifying-change error; in both no tag and no branch is created.
C19_NoCommitsOrNoChange ==
  CutWithReference
    => /\ CommitsSinceReference = {}
            => /\ run.error = IF run.latestTag # <<>> THEN "NoCommitsSinceTag"
                              ELSE "NoCommitsInRepo"
               /\ run.status = "failed"
               /\ Store = run.pre
       /\ ( /\ CommitsSinceReference # {}
            /\ \A c \in CommitsSinceReference :
                 parseReleaseTypeFromCommitMessage(commits[c].message) = NONE )
            => /\ run.error = "NoValidChanges"
               /\ run.status = "failed"
               /\ Store = run.pre

\* a cut with a reference tag followed by a commit of no conventional type
C19_Witness ==
  /\ CutWithReference
  /\ run.latestTag # <<>>
  /\ CommitsSinceReference # {}
  /\ run.error = "NoValidChanges"

\* a commit of type feat without and with the breaking-change mark
IsFeat(m) == m # <<>> /\ m[1] = "feat" /\ \A i \in 1..Len(m) : m[i] # "!"

IsFeatBang(m) == m # <<>> /\ m[1] = "feat" /\ \E i \in 1..Len(m) : m[i] = "!"

\* a cut on the trunk with a feat and a feat! among the commits since the
\* reference tag
CutAfterFeatAndFeatBang ==
  /\ CutWithReference
  /\ run.currentBranch = trunkBranchName
  /\ \E c \in CommitsSinceReference : IsFeat(commits[c].message)
  /\ \E c \in CommitsSinceReference : IsFeatBang(commits[c].message)

\* the major version of the reference, 0 when there is no reference tag
ReferenceMajor ==
  IF run.latestTag = <<>> THEN 0 ELSE SemanticVersion(run.latestTag).major

\* C20: on the trunk, when the commits since the reference tag vM.x.y hold a
\* feat commit and a feat! commit, release-cut finds the type major and,
\* unless the branch or the tag exists already, creates the branch
\* release-{M+1}.0.x on HEAD's commit and tags that commit v{M+1}.0.0-rc.1.
C20_FeatAndFeatBangIsMajor ==
  CutAfterFeatAndFeatBang
    => LET name == <<"release", "-">> \o NumToString(ReferenceMajor + 1)
                     \o <<".", "0", ".", "x">>
           tag  == <<"v">> \o NumToString(ReferenceMajor + 1)
                     \o <<".", "0", ".", "0", "-", "rc", ".", "1">>
       IN  /\ run.releaseType = MAJOR
           /\ run.error \in {"", "PushFailed", "BranchExists", "TagExists"}
           /\ run.error = "BranchExists" => name \in DOMAIN run.pre.branches
           /\ run.error = "TagExists" => tag \in DOMAIN run.pre.tags
           /\ run.error \in {"", "PushFailed"}
                => /\ name \notin DOMAIN run.pre.branches
                   /\ branches = (name :> run.pre.HEAD.commit) @@ run.pre.branches
                   /\ tag \notin DOMAIN run.pre.tags
                   /\ tags = (tag :> run.pre.HEAD.commit) @@ run.pre.tags
                   /\ run.nextVersion = tag

\* the cut of v2.0.0-rc.1 after the reference tag v1.0.0, a feat and a feat!
C20_Witness ==
  /\ CutAfterFeatAndFeatBang
  /\ run.status = "ok"
  /\ run.latestTag = <<"v", "1", ".", "0", ".", "0">>
  /\ <<"release", "-", "2", ".", "0", ".", "x">> \in DOMAIN branches
  /\ run.outputs.nextVersion = <<"v", "2", ".", "0", ".", "0", "-", "rc", ".", "1">>

\* the order major > minor > patch > none
Severity(releaseType) ==
  IF releaseType = MAJOR THEN 3
  ELSE IF releaseType = MINOR THEN 2
  ELSE IF releaseType = PATCH THEN 1
  ELSE 0

\* t is the most severe of the types of the messages of the list, none for
\* the empty list
IsMostSevereOf(t, messages) ==
  /\ t \in {MAJOR, MINOR, PATCH, NONE}
  /\ \A i \in 1..Len(messages) :
       Severity(parseReleaseTypeFromCommitMessage(messages[i])) <= Severity(t)
  /\ \/ t = NONE
     \/ \E i \in 1..Len(messages) : parseReleaseTypeFromCommitMessage(messages[i]) = t

\* the list with the message m put in at place i
InsertAt(messages, i, m) ==
  SubSeq(messages, 1, i - 1) \o <<m>> \o SubSeq(messages, i, Len(messages))

Reversed(messages) == [i \in 1..Len(messages) |-> messages[Len(messages) + 1 - i]]

AggregateCalled == call.fn = "releaseTypeFromCommitMessages"

\* C21: the release type of a list of messages is the most severe, in the
\* order major > minor > patch > none, of the types of its messages; the
\* list in the opposite order has the same type; and the list with a
\* message of type major put in at any place has the type major.
C21_AggregateIsMaximum ==
  AggregateCalled
    => /\ IsMostSevereOf(call.result, call.arg)
       /\ releaseTypeFromCommitMessages(Reversed(call.arg)) = call.result
       /\ \A i \in 1..(Len(call.arg) + 1) :
            \A m \in {k \in AggregatePool : parseReleaseTypeFromCommitMessage(k) = MAJOR} :
              releaseTypeFromCommitMessages(InsertAt(call.arg, i, m)) = MAJOR

\* a patch message after a minor one: the type is minor
C21_Witness ==
  /\ AggregateCalled
  /\ Len(call.arg) = 2
  /\ parseReleaseTypeFromCommitMessage(call.arg[1]) = MINOR
  /\ parseReleaseTypeFromCommitMessage(call.arg[2]) = PATCH
  /\ call.result = MINOR

ParseCalled == call.fn = "parseReleaseTypeFromCommitMessage"

\* the message a direct call of the classifier was given
CalledMessage == call.arg[1]

\* the message has the "!" of a breaking change before the colon
HasBang(m) == \E i \in 1..Len(m) : m[i] = "!" /\ \A j \in 1..i : m[j] # ": "

\* the marker BREAKING CHANGE: occurs in the message
HasMarker(m) == \E i \in 1..Len(m) : m[i] = "BREAKING CHANGE: "

\* the marker starts a line of one of the paragraphs that follow the header
HasMarkerLine(m) ==
  \E i \in 2..Len(m) : m[i] = "BREAKING CHANGE: " /\ m[i - 1] = "\n"

\* C22: a message of the conventional-commit grammar without the
\* breaking-change marker is major when a "!" follows the type and scope,
\* whatever the type; without "!" it is minor for feat, patch for fix and
\* none for every other type.
C22_TypeAndBang ==
  (ParseCalled /\ CalledMessage \in ConformingPool /\ ~HasMarker(CalledMessage))
    => call.result =
         IF HasBang(CalledMessage) THEN MAJOR
         ELSE IF CalledMessage[1] = "feat" THEN MINOR
         ELSE IF CalledMessage[1] = "fix" THEN PATCH
         ELSE NONE

\* a type that bumps nothing, with "!": major
C22_Witness ==
  /\ ParseCalled
  /\ CalledMessage \in ConformingPool
  /\ ~HasMarker(CalledMessage)
  /\ CalledMessage[1] = "chore"
  /\ HasBang(CalledMessage)
  /\ call.result = MAJOR

\* C23: a message of the conventional-commit grammar is major whenever one
\* of its trailing paragraphs, the last or an earlier one, has a line that
\* starts with the marker BREAKING CHANGE: , whatever its type and with or
\* without "!".
C23_MarkerInAnyParagraph ==
  (ParseCalled /\ CalledMessage \in ConformingPool /\ HasMarkerLine(CalledMessage))
    => call.result = MAJOR

\* the message matches CONVENTIONAL_COMMIT_REGEX
Conforms(m) == ConventionalCommitMatch(m).ok

\* the messages of the commits since the reference, newest first, and those
\* of them that are conventional commits
MessagesSinceReference ==
  LET ids == {c \in CommitsSinceReference : TRUE}
      nth(i) == CHOOSE c \in ids : Cardinality({d \in ids : d > c}) = i - 1
  IN  [i \in 1..Cardinality(ids) |-> commits[nth(i)].message]

ConformingSinceReference == SelectSeq(MessagesSinceReference, Conforms)

CalledVersion == SemanticVersion(call.arg)

\* the dot-segments of the prerelease of the version the call started from
CalledPrereleaseParts == Split(CalledVersion.prerelease, ".")

LastOf(parts) == parts[Len(parts)]

\* C25: bumpPatch of a version without a prerelease gives patch + 1 and the
\* prerelease rc.1; of a version with one it keeps major, minor and patch
\* and, when the last dot-segment of the prerelease is a number, puts that
\* number plus one in its place, and otherwise (a last segment such as foo
\* or 1a) keeps every segment and appends .1 .
C25_BumpPatch ==
  call.fn = "bumpPatch"
    => IF CalledVersion.prerelease = <<>>
       THEN call.result = [CalledVersion EXCEPT !.patch = CalledVersion.patch + 1,
                                               !.prerelease = <<"rc", ".", "1">>]
       ELSE /\ call.result.major = CalledVersion.major
            /\ call.result.minor = CalledVersion.minor
            /\ call.result.patch = CalledVersion.patch
            /\ call.result.prerelease =
                 IF IsNumeric(LastOf(CalledPrereleaseParts))
                 THEN Join([CalledPrereleaseParts EXCEPT
                              ![Len(CalledPrereleaseParts)] =
                                NumToString(DigitsValue(LastOf(CalledPrereleaseParts)) + 1)],
                           <<".">>)
                 ELSE CalledVersion.prerelease \o <<".", "1">>

\* C26: for every version, with a prerelease or without, bumpMajor gives
\* major + 1, minor 0, patch 0 and the prerelease rc.1, and bumpMinor gives
\* the same major, minor + 1, patch 0 and the prerelease rc.1.
C26_BumpMajorMinor ==
  /\ call.fn = "bumpMajor"
       => call.result = [major |-> CalledVersion.major + 1, minor |-> 0, patch |-> 0,
                         prerelease |-> <<"rc", ".", "1">>]
  /\ call.fn = "bumpMinor"
       => call.result = [major |-> CalledVersion.major, minor |-> CalledVersion.minor + 1,
                         patch |-> 0, prerelease |-> <<"rc", ".", "1">>]

\* bumpMajor of a version with a minor, a patch and a prerelease other than rc.1
C26_Witness ==
  /\ call.fn = "bumpMajor"
  /\ CalledVersion.minor > 0
  /\ CalledVersion.patch > 0
  /\ CalledVersion.prerelease = <<"alpha">>
  /\ call.result.minor = 0
  /\ call.result.prerelease = <<"rc", ".", "1">>

\* the string with the v put in front if it has none and the build metadata
\* taken away
Normalised(version) ==
  (IF version # <<>> /\ version[1] = "v" THEN <<>> ELSE <<"v">>)
    \o (IF \E i \in 1..Len(version) : version[i] = "+"
        THEN SubSeq(version, 1,
                    (CHOOSE i \in 1..Len(version) :
                       version[i] = "+" /\ \A j \in 1..(i - 1) : version[j] # "+") - 1)
        ELSE version)

\* C27: rendering the version parsed from a valid string gives the string
\* with the v added if missing and the build metadata dropped, the three
\* numbers and the prerelease as written; the rendered string parses to the
\* same version and renders to itself.
C27_RenderAfterParse ==
  call.fn = "toString"
    => /\ call.result = Normalised(call.arg)
       /\ IsSemVer(call.result)
       /\ SemanticVersion(call.result) = CalledVersion
       /\ toString(SemanticVersion(call.result)) = call.result

\* a string without the v and with build metadata
C27_Witness ==
  /\ call.fn = "toString"
  /\ call.arg[1] # "v"
  /\ \E i \in 1..Len(call.arg) : call.arg[i] = "+"
  /\ CalledVersion.prerelease # <<>>
  /\ call.result # call.arg

\* C28: under every configuration and for every branch name, a branch the
\* release action accepts as a release branch is not the trunk of
\* release-cut, and the trunk of release-cut is not accepted by the release
\* action as a release branch, also when the name of the trunk matches the
\* release-branch pattern.
C28_TrunkOrReleaseNotBoth ==
  /\ (call.fn = "release" /\ call.result = "")
       => BranchTypeFor(call.arg.currentBranch, call.arg.trunkBranchName,
                        call.arg.releaseBranchRegex) # "trunk"
  /\ (call.fn = "release-cut" /\ call.result = "trunk")
       => ReleaseBranchErrorFor(call.arg.currentBranch, call.arg.releaseBranchRegex)
            = "NotAReleaseBranch"

GetCommitMessagesCalled == call.fn = "getCommitMessages"

\* the commits reachable from the commit to and not from the commit from
CommitsAfter(from, to) ==
  {c \in 1..Len(commits) : OnHistoryOf(c, to) /\ ~OnHistoryOf(c, from)}

Occurrences(seq, m) == Cardinality({i \in DOMAIN seq : seq[i] = m})

\* C29: getCommitMessages(from, to) returns the messages of exactly the
\* commits reachable from to and not reachable from from, each once: the
\* commit from is left out, the commit to is in, and nothing is returned
\* when from and to are the same commit.
C29_ReachableFromToNotFrom ==
  GetCommitMessagesCalled
    => /\ Len(call.result) = Cardinality(CommitsAfter(call.arg[1], call.arg[2]))
       /\ \A d \in 1..Len(commits) :
            Occurrences(call.result, commits[d].message)
              = Cardinality({c \in CommitsAfter(call.arg[1], call.arg[2]) :
                               commits[c].message = commits[d].message})
       /\ call.arg[1] = call.arg[2] => call.result = <<>>

GetTagsCalled == call.fn = "getTags"

\* C30: getTags(ref) lists every semantic-version tag reachable from ref,
\* each once and none that is not reachable, and the semantic versions of
\* the list ascend in precedence: major, minor and patch compared as
\* numbers, a prerelease tag before the final tag of its version.
C30_AscendingSemver ==
  GetTagsCalled
    => /\ \A t \in DOMAIN tags :
            (IsSemVer(t) /\ TagReachable(t, branches[call.arg]))
              => \E i \in DOMAIN call.result : call.result[i] = t
       /\ \A i \in DOMAIN call.result : TagReachable(call.result[i], branches[call.arg])
       /\ \A i \in DOMAIN call.result : \A j \in DOMAIN call.result :
            i < j => call.result[i] # call.result[j]
       /\ \A i \in DOMAIN call.result : \A j \in DOMAIN call.result :
            (i < j /\ IsSemVer(call.result[i]) /\ IsSemVer(call.result[j]))
              => SemverPrecedes(call.result[i], call.result[j])

GenerateCalled == call.fn = "generateReleaseBranchName"

\* the string s with every occurrence of the token replaced
RECURSIVE ReplaceEvery(_, _, _)
ReplaceEvery(s, tok, by) ==
  IF s = <<>> THEN <<>>
  ELSE (IF Head(s) = tok THEN by ELSE <<Head(s)>>) \o ReplaceEvery(Tail(s), tok, by)

RenderedEverywhere(template, version) ==
  ReplaceEvery(
    ReplaceEvery(
      ReplaceEvery(
        ReplaceEvery(template, "${major}", NumToString(version.major)),
        "${minor}", NumToString(version.minor)),
      "${patch}", NumToString(version.patch)),
    "${prerelease}", version.prerelease)

\* C31: for every template and version, the rendered branch name is the
\* template with every occurrence of ${major}, ${minor}, ${patch} and
\* ${prerelease} replaced by the component of the version, and no
\* placeholder is left in it.
C31_EveryPlaceholderReplaced ==
  GenerateCalled
    => /\ call.result = RenderedEverywhere(call.arg.template,
                                           SemanticVersion(call.arg.version))
       /\ \A i \in DOMAIN call.result :
            call.result[i] \notin {"${major}", "${minor}", "${patch}", "${prerelease}"}

\* a release-cut on the trunk whose tag could not be made
CutFromTrunkTagFailed ==
  run.action = "release-cut" /\ run.branchType = "trunk" /\ run.error = "TagExists"

\* C32: when a release-cut on the trunk has created the release branch and
\* the tag cannot be made because its name exists, the run fails, the new
\* branch stays and is the active branch, no tag is added, nothing is
\* published and no output is set.
C32_NoRollback ==
  CutFromTrunkTagFailed
    => /\ run.status = "failed"
       /\ run.branchCutName \notin DOMAIN run.pre.branches
       /\ run.branchCutName \in DOMAIN branches
       /\ branches[run.branchCutName] = run.pre.HEAD.commit
       /\ ~HEAD.detached /\ HEAD.ref = run.branchCutName
       /\ \A b \in DOMAIN run.pre.branches : branches[b] = run.pre.branches[b]
       /\ tags = run.pre.tags
       /\ run.published = 0
       /\ ~run.outputs.set

C32_Witness == CutFromTrunkTagFailed

\* the errors of the checks a run makes before it changes the store
ValidationErrors ==
  {"NotSupportedAction", "NotAReleaseBranch", "NotTrunkOrRelease",
   "NoCommitsSinceTag", "NoCommitsInRepo", "NoValidChanges",
   "PatchOnTrunk", "MinorOffTrunk", "MajorOffTrunk",
   "NoTagsAtHEAD", "NoCandidate", "MultipleCandidates", "AlreadyReleased",
   "BranchExists"}

FailedValidation == run.status = "failed" /\ run.error \in ValidationErrors

\* C33: a run of either action that fails one of its checks (action, branch
\* classification, history, qualification, placement, state of HEAD, branch
\* conflict) leaves the tags and their commits, the branches and their
\* commits and the active branch as they were when it started, and
\* publishes nothing.
C33_FailedCheckLeavesStore ==
  FailedValidation
    => /\ tags = run.pre.tags
       /\ branches = run.pre.branches
       /\ HEAD = run.pre.HEAD
       /\ run.ops = <<>>
       /\ run.published = 0

\* a failed check on a store that has a tag and a second branch, the branch
\* not being the active one at the end
C33_Witness ==
  /\ FailedValidation
  /\ run.pre.tags # EmptyMap
  /\ \E b \in DOMAIN run.pre.branches : b # run.pre.HEAD.ref

\* C34: in a repository that starts with the trunk alone and no tag and
\* changes only by commits on the trunk and on release branches the cuts
\* created and by runs of the two actions, under the default template and
\* pattern, no run asks for a tag name or a branch name that exists: no run
\* ends with the branch-conflict error or with a refused tag.
C34_NoNameTwice ==
  /\ run.error \notin {"BranchExists", "TagExists"}
  /\ RunEnded => \A i \in DOMAIN run.ops :
                   /\ run.ops[i] = "tag" => run.nextVersion \notin DOMAIN run.pre.tags
                   /\ run.ops[i] = "branch" => run.branchCutName \notin DOMAIN run.pre.branches

\* a successful run in a repository in which earlier runs left three tags
\* and two release branches
C34_Witness ==
  /\ run.status = "ok"
  /\ Cardinality(DOMAIN run.pre.tags) >= 3
  /\ Cardinality(DOMAIN run.pre.branches) >= 3
  /\ Len(run.ops) > 0

\* C35: in every successful run with a previous version, nextVersion is
\* above previousVersion in semver precedence: a cut proposes a version above
\* its reference tag, and a release's final version is above its candidate.
C35_NextAbovePrevious ==
  (run.status = "ok" /\ run.outputs.previousVersion # <<>>)
    => SemverPrecedes(run.outputs.previousVersion, run.outputs.nextVersion)

\* the candidate tag u is a release candidate rc.N of the stable tag t
IsCandidateOf(u, t) ==
  /\ IsCandidateTag(u)
  /\ IsRcN(SemanticVersion(u).prerelease)
  /\ SemanticVersion(u).major = SemanticVersion(t).major
  /\ SemanticVersion(u).minor = SemanticVersion(t).minor
  /\ SemanticVersion(u).patch = SemanticVersion(t).patch

\* C36: in a repository that only the two actions tag and branch, every
\* stable tag vX.Y.Z is on a commit that also carries a candidate tag
\* vX.Y.Z-rc.N of the same major, minor and patch, and no commit carries two
\* stable tags.
C36_StableOnItsCandidate ==
  /\ \A t \in DOMAIN tags :
       IsStableTag(t)
         => \E u \in DOMAIN tags : tags[u] = tags[t] /\ IsCandidateOf(u, t)
  /\ \A t \in DOMAIN tags : \A u \in DOMAIN tags :
       (IsStableTag(t) /\ IsStableTag(u) /\ tags[t] = tags[u]) => t = u

\* two releases were made, of two versions
C36_Witness ==
  \E t \in DOMAIN tags : \E u \in DOMAIN tags :
    IsStableTag(t) /\ IsStableTag(u) /\ t # u

\* the semantic-version tags on the commit of HEAD when the run started
SemverTagsAtHeadBefore ==
  {t \in DOMAIN run.pre.tags : run.pre.tags[t] = run.pre.HEAD.commit /\ IsSemVer(t)}

\* a successful release-cut on a commit that had no semantic-version tag,
\* which left a release branch active
CutReadyForRelease ==
  /\ CutSucceeded
  /\ SemverTagsAtHeadBefore = {}
  /\ ~HEAD.detached
  /\ isReleaseBranch(HEAD.ref, releaseBranchRegex)

\* the name of the final tag of the version the cut proposed
FinalOfProposed == toString(versionMakeRelease(SemanticVersion(run.nextVersion)))

\* the release action run on this store, its push accepted, succeeds and adds
\* the final tag of the proposed version on the commit of HEAD, and no other
ReleaseNowMakesFinal ==
  LET released(r) ==
        /\ r.status = "ok"
        /\ r.nextVersion = FinalOfProposed
        /\ FinalOfProposed \notin DOMAIN tags
        /\ r.st.tags = (FinalOfProposed :> HEAD.commit) @@ tags
  IN  \A dryRun \in BOOLEAN : released(RunResult(Store, "release", dryRun, TRUE))

C38_ReleaseNotRepeatable ==
  ReleaseSucceeded
    => LET again(r) ==
             /\ r.status = "failed"
             /\ r.error = "AlreadyReleased"
             /\ r.st.tags = tags
       IN  \A dryRun \in BOOLEAN : again(RunResult(Store, "release", dryRun, TRUE))

\* C39: right after a successful release-cut, a second release-cut run on
\* the branch then active, no commit having been made, fails with the
\* no-commits-since-tag error and creates no tag and no branch.
C39_CutNotRepeatable ==
  CutSucceeded
    => LET again(r) ==
             /\ r.status = "failed"
             /\ r.error = "NoCommitsSinceTag"
             /\ r.latestTag = run.nextVersion
             /\ r.st = Store
       IN  \A dryRun \in BOOLEAN : again(RunResult(Store, "release-cut", dryRun, TRUE))

\* a successful cut that had a reference tag
C39_Witness == CutSucceeded /\ run.latestTag # <<>>

\* a release-cut on the trunk or a release branch from which no tag was
\* reachable
CutWithoutTag == CutOnValidBranch /\ ReachableAtStart = {}

\* C40: when no tag is reachable from the current branch, release-cut
\* classifies the messages of all commits of the branch but the first one:
\* the release type is the most severe type among them, whatever the message
\* of the first commit, and on a branch of one commit the run fails with the
\* no-commits error whatever that message is.
C40_FirstCommitLeftOut ==
  CutWithoutTag
    => /\ run.latestTag = <<>>
       /\ commits[run.pre.HEAD.commit].parent = 0 => run.error = "NoCommitsInRepo"
       /\ commits[run.pre.HEAD.commit].parent # 0
            => /\ run.error # "NoCommitsInRepo"
               /\ Len(MessagesSinceReference)
                    = Cardinality({c \in 1..Len(commits) :
                                     OnHistoryOf(c, run.pre.HEAD.commit)}) - 1
               /\ IsMostSevereOf(run.releaseType, MessagesSinceReference)

\* a cut without a tag whose first commit is a breaking change and whose
\* other commits make it a patch
C40_Witness ==
  /\ CutWithoutTag
  /\ parseReleaseTypeFromCommitMessage(commits[1].message) = MAJOR
  /\ run.releaseType = PATCH

====
